---- MODULE Spec2Model ----
(***************************************************************************)
(* Model of the project scanner (user-scripts/project-scanner): the        *)
(* ProjectScanner class of scanner.ts and the command line of scan.ts.     *)
(*                                                                         *)
(* Representation.                                                         *)
(*  - A call text, a property initializer and a template expression are    *)
(*    sequences of tokens (strings); white space is not a token.  The      *)
(*    regular expressions of the source are matched token by token.        *)
(*  - A path and a module specifier are sequences of atoms: "/", ".",      *)
(*    "..", a name, an extension atom (".ts", ".js") and "x" (so that      *)
(*    ".tsx" is <<".ts", "x">>).  substring, lastIndexOf, split, endsWith  *)
(*    and replace act on the atoms as the source's do on characters.       *)
(*  - A JavaScript Map is a function whose DOMAIN is the key set; a Set is *)
(*    a set wherever its iteration order decides nothing, a sequence       *)
(*    otherwise.                                                           *)
(***************************************************************************)
EXTENDS Naturals, Integers, Sequences, FiniteSets, TLC

VARIABLES
  project,            \* the source files the SourceIndex holds, in getSourceFiles() order
  framework,          \* config.framework
  callGraph,          \* ProjectScanner.callGraph
  reverseCallGraph,   \* ProjectScanner.reverseCallGraph
  classMethodsMap,    \* ProjectScanner.classMethodsMap
  injectionMap,       \* ProjectScanner.injectionMap
  nestedInjectionMap, \* ProjectScanner.nestedInjectionMap
  localInjectionMap,  \* ProjectScanner.localInjectionMap
  pc,                 \* position inside scan()
  fileInfos,          \* scan(): const fileInfos
  deadCode,           \* scan(): const deadCode
  inheritance,        \* scan(): const inheritance
  circularDependencies, \* scan(): const circularDependencies
  summary,            \* scan(): const summary
  interfaceImplementations, \* scan(): const interfaceImplementations
  outputs,            \* the ScanOutput values scan() has returned, in order
  args,               \* process.argv.slice(2)
  argi,               \* main(): the loop index i
  config,             \* main(): const config
  mpc,                \* position inside main()
  exitCode,           \* the code passed to process.exit, or Undef
  written             \* the report files written by fs.writeFileSync

scannerVars == <<callGraph, reverseCallGraph, classMethodsMap, injectionMap,
                 nestedInjectionMap, localInjectionMap>>
scanVars == <<pc, fileInfos, deadCode, inheritance, circularDependencies, summary,
              interfaceImplementations>>
mainVars == <<args, argi, config, mpc, exitCode, written>>
vars == <<project, framework, scannerVars, scanVars, outputs, mainVars>>

----------------------------------------------------------------------------
(* JavaScript values *)

Undef == "undefined"

Truthy(v) == v # Undef /\ v # ""

EmptyMap == [k \in {} |-> k]

MapHas(m, k) == k \in DOMAIN m

MapGet(m, k) == IF k \in DOMAIN m THEN m[k] ELSE Undef

MapSet(m, k, v) == [x \in (DOMAIN m) \cup {k} |-> IF x = k THEN v ELSE m[x]]

\* if (!g.has(key)) g.set(key, new Set()); g.get(key).add(caller)
AddEdge(g, key, caller) ==
  MapSet(g, key, (IF key \in DOMAIN g THEN g[key] ELSE {}) \cup {caller})

\* AddEdge for every <<key, caller>> of a set of edges
AddEdges(g, edges) ==
  LET keys == {e[1] : e \in edges}
  IN [k \in (DOMAIN g) \cup keys |->
        (IF k \in DOMAIN g THEN g[k] ELSE {}) \cup {e[2] : e \in {d \in edges : d[1] = k}}]

Range(s) == {s[i] : i \in DOMAIN s}

RECURSIVE Text(_)
\* the text of a token sequence (getText() with white space removed)
Text(toks) == IF toks = <<>> THEN "" ELSE Head(toks) \o Text(Tail(toks))

Min(S) == CHOOSE x \in S : \A y \in S : x <= y

----------------------------------------------------------------------------
(* Tokens and the regular expressions over them *)

Punct == {".", "(", ")", "?.", ","}

\* \w+ : an identifier token (a leading underscore is a word character)
IsWord(t) == t \notin Punct

\* /^this\.(_?\w+)\s*\.\s*(\w+)/
SimpleMatches(call) ==
  /\ Len(call) >= 5
  /\ call[1] = "this" /\ call[2] = "." /\ IsWord(call[3])
  /\ call[4] = "." /\ IsWord(call[5])

\* /^this\.(_?\w+)\s*\.\s*(\w+)\s*\.\s*(\w+)/
NestedMatches(call) ==
  /\ Len(call) >= 7
  /\ SimpleMatches(call)
  /\ call[6] = "." /\ IsWord(call[7])

\* /inject\s*\(\s*(\w+)\s*\)/ matched at token i
InjectAt(toks, i) ==
  /\ i + 3 <= Len(toks)
  /\ toks[i] = "inject" /\ toks[i + 1] = "(" /\ IsWord(toks[i + 2]) /\ toks[i + 3] = ")"

\* /inject\s*\(\s*(\w+)\s*\)\s*\.\s*(\w+)/ matched at token i
InjectCallAt(toks, i) ==
  /\ InjectAt(toks, i)
  /\ i + 5 <= Len(toks)
  /\ toks[i + 4] = "." /\ IsWord(toks[i + 5])

\* the leftmost match of the unanchored injection pattern, 0 when none
InjectIndex(toks) ==
  LET S == {i \in DOMAIN toks : InjectAt(toks, i)}
  IN IF S = {} THEN 0 ELSE Min(S)

InjectCallIndex(toks) ==
  LET S == {i \in DOMAIN toks : InjectCallAt(toks, i)}
  IN IF S = {} THEN 0 ELSE Min(S)

\* /^(\w+)\s*\.\s*(\w+)/
LocalVarMatches(call) ==
  /\ Len(call) >= 3
  /\ IsWord(call[1]) /\ call[2] = "." /\ IsWord(call[3])

\* /(\w+)\s*\(/ : the first identifier directly followed by "(", Undef when none
TemplateMethodMatch(expr) ==
  LET S == {i \in DOMAIN expr : IsWord(expr[i]) /\ i + 1 <= Len(expr) /\ expr[i + 1] = "("}
  IN IF S = {} THEN Undef ELSE expr[Min(S)]

\* the names of the model whose text ends with "Service" (typeName.endsWith('Service'))
ServiceNames == {"LogService", "ApiService"}

EndsWithService(typeName) == typeName \in ServiceNames

\* the names of the model whose text starts with "_" (method.name.startsWith('_'))
UnderscoreNames == {"_tidy", "_open"}

StartsWithUnderscore(name) == name \in UnderscoreNames

----------------------------------------------------------------------------
(* Pass 1: collectClassInfo *)

RECURSIVE Flatten(_)
Flatten(ss) == IF ss = <<>> THEN <<>> ELSE Head(ss) \o Flatten(Tail(ss))

\* for (sourceFile of getSourceFiles()) for (cls of sourceFile.getClasses())
AllClasses(files) == Flatten([i \in DOMAIN files |-> files[i].classes])

RECURSIVE PropertyInjections(_, _, _)
\* cls.getProperties().forEach: initializer.match(/inject\s*\(\s*(\w+)\s*\)/)
PropertyInjections(props, i, injections) ==
  IF i > Len(props) THEN injections
  ELSE LET init == props[i].initializer
           at == InjectIndex(init)
       IN PropertyInjections(props, i + 1,
            IF at > 0 THEN MapSet(injections, props[i].name, init[at + 2]) ELSE injections)

\* typeName.endsWith('Service') || this.classMethodsMap.has(typeName)
CtorParamBinds(param, cmm) ==
  /\ param.type # Undef
  /\ EndsWithService(param.type) \/ MapHas(cmm, param.type)

RECURSIVE CtorInjections(_, _, _, _)
\* cls.getConstructors()[0].getParameters().forEach
CtorInjections(params, i, injections, cmm) ==
  IF i > Len(params) THEN injections
  ELSE CtorInjections(params, i + 1,
         IF CtorParamBinds(params[i], cmm)
           THEN MapSet(injections, params[i].name, params[i].type)
           ELSE injections,
         cmm)

\* the body of the class loop of collectClassInfo, on st = [cmm, inj, cpm]
CollectClass(cls, st) ==
  LET cmm == MapSet(st.cmm, cls.name, {cls.methods[j].name : j \in DOMAIN cls.methods})
      injections == CtorInjections(cls.ctorParams, 1,
                      PropertyInjections(cls.properties, 1, EmptyMap), cmm)
  IN IF DOMAIN injections # {}
       THEN [cmm |-> cmm,
             inj |-> MapSet(st.inj, cls.name, injections),
             cpm |-> MapSet(st.cpm, cls.name, injections)]
       ELSE [cmm |-> cmm, inj |-> st.inj, cpm |-> st.cpm]

RECURSIVE CollectClasses(_, _, _)
CollectClasses(classes, i, st) ==
  IF i > Len(classes) THEN st
  ELSE CollectClasses(classes, i + 1, CollectClass(classes[i], st))

\* collectClassInfo(): the maps it leaves, from the maps it finds
collectClassInfo(files, cmm, inj) ==
  LET st == CollectClasses(AllClasses(files), 1, [cmm |-> cmm, inj |-> inj, cpm |-> EmptyMap])
  IN [classMethodsMap |-> st.cmm, injectionMap |-> st.inj, nestedInjectionMap |-> st.cpm]

----------------------------------------------------------------------------
(* The per-file pass: scanFile, scanAngularTemplate, addTemplateBindingsToCallGraph *)

CallTexts(calls) == {Text(calls[i]) : i \in DOMAIN calls}

\* scanMethod's MethodInfo; callChain is the set of retained chains, {} while the
\* optional field is absent (buildCallChains never assigns an empty list)
scanMethod(method) ==
  [name |-> method.name, modifiers |-> method.modifiers, calls |-> method.calls,
   calledBy |-> {}, callChain |-> {}]

\* scanClass's ClassInfo
scanClass(cls) ==
  [name |-> cls.name, extends |-> cls.extends, implements |-> cls.implements,
   decorators |-> cls.decorators,
   methods |-> [j \in DOMAIN cls.methods |-> scanMethod(cls.methods[j])]]

\* scanFunction / the variable-bound branch of getFunctions: the FunctionInfo
scanFunction(fn) ==
  [name |-> fn.name, calls |-> fn.calls, exported |-> fn.exported]

\* extractLocalInjections: initText.match(/^inject\s*\(\s*(\w+)\s*\)/)
RECURSIVE extractLocalInjections(_, _, _)
extractLocalInjections(locals, i, localMap) ==
  IF i > Len(locals) THEN localMap
  ELSE extractLocalInjections(locals, i + 1,
         IF InjectAt(locals[i].initializer, 1)
           THEN MapSet(localMap, locals[i].name, locals[i].initializer[3])
           ELSE localMap)

\* the callers of a file in scan order: its methods, class by class, then its functions
FileMethodEntries(file) ==
  Flatten([c \in DOMAIN file.classes |->
     [j \in DOMAIN file.classes[c].methods |->
        [fullName |-> file.classes[c].name \o "." \o file.classes[c].methods[j].name,
         calls |-> CallTexts(file.classes[c].methods[j].calls)]]])

FileFunctionEntries(file) ==
  [j \in DOMAIN file.functions |->
     [fullName |-> file.functions[j].name, calls |-> CallTexts(file.functions[j].calls)]]

RECURSIVE SetCallGraph(_, _, _)
\* this.callGraph.set(fullName, new Set(calls)), entry after entry
SetCallGraph(cg, entries, i) ==
  IF i > Len(entries) THEN cg
  ELSE SetCallGraph(MapSet(cg, entries[i].fullName, entries[i].calls), entries, i + 1)

\* scanMethod: calls.forEach(call => reverseCallGraph.get(call).add(fullName))
RawMethodEdges(file) ==
  LET es == FileMethodEntries(file)
  IN UNION {{<<t, es[i].fullName>> : t \in es[i].calls} : i \in DOMAIN es}

RECURSIVE SetLocalInjections(_, _, _)
\* if (localInjections.size > 0) this.localInjectionMap.set(fnName, localInjections)
SetLocalInjections(lim, fns, i) ==
  IF i > Len(fns) THEN lim
  ELSE LET localMap == extractLocalInjections(fns[i].locals, 1, EmptyMap)
       IN SetLocalInjections(
            IF DOMAIN localMap # {} THEN MapSet(lim, fns[i].name, localMap) ELSE lim,
            fns, i + 1)

\* scanAngularTemplate: the bindings of every class of the file carrying @Component
scanAngularTemplate(file) ==
  Flatten([c \in DOMAIN file.classes |->
     IF "@Component" \in Range(file.classes[c].decorators)
       THEN file.classes[c].templateBindings ELSE <<>>])

\* addTemplateBindingsToCallGraph: the edges it adds
TemplateEdges(file, bindings) ==
  IF file.classes = <<>> THEN {}
  ELSE {<<file.classes[1].name \o "." \o TemplateMethodMatch(bindings[b]),
          "template:" \o Text(file.relativePath)>> :
          b \in {k \in DOMAIN bindings : TemplateMethodMatch(bindings[k]) # Undef}}

\* scanFile's FileInfo
scanFile(file) ==
  [relativePath |-> file.relativePath, imports |-> file.imports,
   classes |-> [c \in DOMAIN file.classes |-> scanClass(file.classes[c])],
   functions |-> [j \in DOMAIN file.functions |-> scanFunction(file.functions[j])]]

----------------------------------------------------------------------------
(* Pass 2: resolveCrossFileCalls *)

\* SimpleResolution looking the method name, not the property name, up in the bindings
SimpleResolution_WrongCapture(className, call, inj, nested) ==
  IF ~SimpleMatches(call) THEN Undef
  ELSE LET injections == IF MapHas(inj, className) THEN inj[className] ELSE EmptyMap
           serviceClass == MapGet(injections, call[5])
       IN IF ~Truthy(serviceClass) THEN Undef
          ELSE IF MapHas(nested, serviceClass) /\ MapHas(nested[serviceClass], call[5])
                 THEN Undef
                 ELSE serviceClass \o "." \o call[5]

\* lines 154-167: the value the simple form leaves in resolvedCall
SimpleResolution(className, call, inj, nested) ==
  IF ~SimpleMatches(call) THEN Undef
  ELSE LET injections == IF MapHas(inj, className) THEN inj[className] ELSE EmptyMap
           serviceClass == MapGet(injections, call[3])
       IN IF ~Truthy(serviceClass) THEN Undef
          ELSE IF MapHas(nested, serviceClass) /\ MapHas(nested[serviceClass], call[5])
                 THEN Undef
                 ELSE serviceClass \o "." \o call[5]

\* NestedResolution that stops at the first hop and names the outer service class
NestedResolution_FirstHop(className, call, inj, nested) ==
  IF ~NestedMatches(call) THEN Undef
  ELSE LET injections == IF MapHas(inj, className) THEN inj[className] ELSE EmptyMap
           serviceClass == MapGet(injections, call[3])
       IN IF ~Truthy(serviceClass) \/ ~MapHas(nested, serviceClass) THEN Undef
          ELSE IF Truthy(MapGet(nested[serviceClass], call[5]))
                 THEN serviceClass \o "." \o call[7] ELSE Undef

\* lines 169-185: the value the nested form assigns, Undef when it assigns nothing
NestedResolution(className, call, inj, nested) ==
  IF ~NestedMatches(call) THEN Undef
  ELSE LET injections == IF MapHas(inj, className) THEN inj[className] ELSE EmptyMap
           serviceClass == MapGet(injections, call[3])
       IN IF ~Truthy(serviceClass) \/ ~MapHas(nested, serviceClass) THEN Undef
          ELSE LET nestedServiceClass == MapGet(nested[serviceClass], call[5])
               IN IF Truthy(nestedServiceClass)
                    THEN nestedServiceClass \o "." \o call[7] ELSE Undef

\* lines 187-194 and 213-220: the value the inline inject form assigns
InjectResolution(call, cmm) ==
  LET at == InjectCallIndex(call)
  IN IF at > 0 /\ MapHas(cmm, call[at + 2])
       THEN call[at + 2] \o "." \o call[at + 5] ELSE Undef

\* lines 151-195: resolvedCall of one call text of a method of class className;
\* each form that matches overwrites what an earlier form assigned
ResolveMethodCall(className, call, inj, nested, cmm) ==
  LET r1 == SimpleResolution(className, call, inj, nested)
      r2 == NestedResolution(className, call, inj, nested)
      r3 == InjectResolution(call, cmm)
  IN IF r3 # Undef THEN r3 ELSE IF r2 # Undef THEN r2 ELSE r1

\* ResolveFunctionCall that takes the receiver's own name when no binding is found
ResolveFunctionCall_AnyReceiver(fnName, call, lim, cmm) ==
  LET localInjections == IF MapHas(lim, fnName) THEN lim[fnName] ELSE EmptyMap
      at == InjectCallIndex(call)
  IN IF at > 0 /\ MapHas(cmm, call[at + 2]) THEN call[at + 2] \o "." \o call[at + 5]
     ELSE IF LocalVarMatches(call)
            THEN LET serviceClass == MapGet(localInjections, call[1])
                 IN IF Truthy(serviceClass) /\ MapHas(cmm, serviceClass)
                      THEN serviceClass \o "." \o call[3]
                      ELSE call[1] \o "." \o call[3]
            ELSE Undef

\* lines 210-230: resolvedCall of one call text of free function fnName
ResolveFunctionCall(fnName, call, lim, cmm) ==
  LET localInjections == IF MapHas(lim, fnName) THEN lim[fnName] ELSE EmptyMap
      r3 == InjectResolution(call, cmm)
  IN IF r3 # Undef THEN r3
     ELSE IF LocalVarMatches(call)
            THEN LET serviceClass == MapGet(localInjections, call[1])
                 IN IF Truthy(serviceClass) /\ MapHas(cmm, serviceClass)
                      THEN serviceClass \o "." \o call[3] ELSE Undef
            ELSE Undef

\* lines 143-204: the edges the class loop adds
ResolvedMethodEdges(infos, inj, nested, cmm) ==
  UNION {UNION {UNION {
    LET cls == infos[f].classes[c]
        method == cls.methods[j]
    IN {<<ResolveMethodCall(cls.name, method.calls[k], inj, nested, cmm),
          cls.name \o "." \o method.name>> :
          k \in {q \in DOMAIN method.calls :
                   Truthy(ResolveMethodCall(cls.name, method.calls[q], inj, nested, cmm))}}
    : j \in DOMAIN infos[f].classes[c].methods}
    : c \in DOMAIN infos[f].classes}
    : f \in DOMAIN infos}

\* lines 206-239: the edges the function loop adds
ResolvedFunctionEdges(infos, lim, cmm) ==
  UNION {UNION {
    LET fn == infos[f].functions[j]
    IN {<<ResolveFunctionCall(fn.name, fn.calls[k], lim, cmm), "function:" \o fn.name>> :
          k \in {q \in DOMAIN fn.calls :
                   Truthy(ResolveFunctionCall(fn.name, fn.calls[q], lim, cmm))}}
    : j \in DOMAIN infos[f].functions}
    : f \in DOMAIN infos}

\* resolveCrossFileCalls(fileInfos): the reverse graph it leaves
resolveCrossFileCalls(infos, rev, inj, nested, lim, cmm) ==
  AddEdges(rev, ResolvedMethodEdges(infos, inj, nested, cmm)
                  \cup ResolvedFunctionEdges(infos, lim, cmm))

----------------------------------------------------------------------------
(* buildCallGraph: the back-fill of calledBy *)

\* buildCallGraph looking the callers up under the bare method name
buildCallGraph_MethodNameKey(infos, rev) ==
  [f \in DOMAIN infos |->
     [infos[f] EXCEPT !.classes =
        [c \in DOMAIN infos[f].classes |->
           [infos[f].classes[c] EXCEPT !.methods =
              [j \in DOMAIN infos[f].classes[c].methods |->
                 LET method == infos[f].classes[c].methods[j]
                 IN IF MapHas(rev, method.name)
                      THEN [method EXCEPT !.calledBy = rev[method.name]] ELSE method]]]]]

buildCallGraph(infos, rev) ==
  [f \in DOMAIN infos |->
     [infos[f] EXCEPT !.classes =
        [c \in DOMAIN infos[f].classes |->
           [infos[f].classes[c] EXCEPT !.methods =
              [j \in DOMAIN infos[f].classes[c].methods |->
                 LET method == infos[f].classes[c].methods[j]
                     key == infos[f].classes[c].name \o "." \o method.name
                 IN IF MapHas(rev, key)
                      THEN [method EXCEPT !.calledBy = rev[key]] ELSE method]]]]]

----------------------------------------------------------------------------
(* detectDeadCode *)

lifecycleHooks ==
  {"ngOnInit", "ngOnDestroy", "ngOnChanges", "ngDoCheck",
   "ngAfterContentInit", "ngAfterContentChecked",
   "ngAfterViewInit", "ngAfterViewChecked",
   "constructor", "canActivate", "canDeactivate", "resolve"}

\* MethodIsDead exempting every private method, whatever its name
MethodIsDead_AnyPrivate(method) ==
  /\ method.calledBy = {}
  /\ method.name \notin lifecycleHooks
  /\ "private" \notin method.modifiers

\* MethodIsDead without the lifecycle allow-list
MethodIsDead_NoAllowList(method) ==
  /\ method.calledBy = {}
  /\ ~(StartsWithUnderscore(method.name) /\ "private" \in method.modifiers)

\* lines 554-556: the method is pushed to deadCode
MethodIsDead(method) ==
  /\ method.calledBy = {}
  /\ method.name \notin lifecycleHooks
  /\ ~(StartsWithUnderscore(method.name) /\ "private" \in method.modifiers)

\* FunctionIsDead without the export exemption
FunctionIsDead_IgnoresExport(fn, rev) ==
  ~MapHas(rev, fn.name) \/ rev[fn.name] = {}

\* lines 571-573: the function is pushed to deadCode
FunctionIsDead(fn, rev) ==
  /\ ~MapHas(rev, fn.name) \/ rev[fn.name] = {}
  /\ ~fn.exported

DeadMethodsOfFile(info) ==
  Flatten([c \in DOMAIN info.classes |->
     LET cls == info.classes[c]
         item(j) == [type |-> "method", name |-> cls.methods[j].name,
                     fullName |-> cls.name \o "." \o cls.methods[j].name,
                     file |-> Text(info.relativePath), reason |-> "No callers found"]
     IN Flatten([j \in DOMAIN cls.methods |->
          IF MethodIsDead(cls.methods[j]) THEN <<item(j)>> ELSE <<>>])])

DeadFunctionsOfFile(info, rev) ==
  Flatten([j \in DOMAIN info.functions |->
     IF FunctionIsDead(info.functions[j], rev)
       THEN <<[type |-> "function", name |-> info.functions[j].name,
               fullName |-> info.functions[j].name,
               file |-> Text(info.relativePath),
               reason |-> "No callers found and not exported"]>>
       ELSE <<>>])

detectDeadCode(infos, rev) ==
  Flatten([f \in DOMAIN infos |->
     DeadMethodsOfFile(infos[f]) \o DeadFunctionsOfFile(infos[f], rev)])

----------------------------------------------------------------------------
(* analyzeInheritance *)

RECURSIVE ClassCaches(_, _, _)
\* lines 595-600, on st = [methods, extends]
ClassCaches(classes, i, st) ==
  IF i > Len(classes) THEN st
  ELSE ClassCaches(classes, i + 1,
         [methods |-> MapSet(st.methods, classes[i].name,
                        {classes[i].methods[j].name : j \in DOMAIN classes[i].methods}),
          extends |-> MapSet(st.extends, classes[i].name, classes[i].extends)])

\* getAllAncestorMethods that stops at the direct parent
getAllAncestorMethods_ParentOnly(className, visited, caches) ==
  LET parentName == MapGet(caches.extends, className)
  IN IF ~Truthy(parentName) \/ parentName \in visited THEN {}
     ELSE IF MapHas(caches.methods, parentName) THEN caches.methods[parentName] ELSE {}

RECURSIVE getAllAncestorMethods(_, _, _)
\* lines 602-618; visited is handed down the single chain of parents
getAllAncestorMethods(className, visited, caches) ==
  LET parentName == MapGet(caches.extends, className)
  IN IF ~Truthy(parentName) \/ parentName \in visited THEN {}
     ELSE (IF MapHas(caches.methods, parentName) THEN caches.methods[parentName] ELSE {})
            \cup getAllAncestorMethods(parentName, visited \cup {parentName}, caches)

RECURSIVE AncestorLookupCalls_NoVisited(_, _, _, _)
\* AncestorLookupCalls without the visited test
AncestorLookupCalls_NoVisited(className, visited, caches, limit) ==
  LET parentName == MapGet(caches.extends, className)
  IN IF limit = 0 THEN 0
     ELSE IF ~Truthy(parentName) THEN 1
     ELSE 1 + AncestorLookupCalls_NoVisited(parentName, visited \cup {parentName}, caches,
                                            limit - 1)

RECURSIVE AncestorLookupCalls(_, _, _, _)
\* lines 602-618: the calls of getAllAncestorMethods that one lookup makes, itself
\* included, counted as far as limit
AncestorLookupCalls(className, visited, caches, limit) ==
  LET parentName == MapGet(caches.extends, className)
  IN IF limit = 0 THEN 0
     ELSE IF ~Truthy(parentName) \/ parentName \in visited THEN 1
     ELSE 1 + AncestorLookupCalls(parentName, visited \cup {parentName}, caches, limit - 1)

analyzeInheritance(infos) ==
  LET classes == AllClasses(infos)
      caches == ClassCaches(classes, 1, [methods |-> EmptyMap, extends |-> EmptyMap])
      entry(cls) ==
        LET allAncestorMethods == getAllAncestorMethods(cls.name, {}, caches)
            childMethods == {cls.methods[j].name : j \in DOMAIN cls.methods}
        IN IF Truthy(cls.extends) /\ allAncestorMethods # {}
             THEN <<[className |-> cls.name, extends |-> cls.extends,
                     inheritedMethods |-> {m \in allAncestorMethods : m \notin childMethods},
                     overriddenMethods |-> {m \in allAncestorMethods : m \in childMethods}]>>
             ELSE <<>>
  IN Flatten([i \in DOMAIN classes |-> entry(classes[i])])

----------------------------------------------------------------------------
(* detectCircularDependencies and resolveImportPath *)

\* the absolute path of config.path, with its trailing separator
RootPath == <<"/", "proj", "/">>

\* the atoms whose text starts with "."
DotAtoms == {".", "..", ".ts", ".js"}

\* imp.module.startsWith('.')
StartsWithDot(module) == module # <<>> /\ module[1] \in DotAtoms

\* s.lastIndexOf('/') + 1: the place of the last "/" atom, 0 when there is none
LastSlash(s) ==
  LET S == {i \in DOMAIN s : s[i] = "/"}
  IN IF S = {} THEN 0 ELSE CHOOSE i \in S : \A j \in S : j <= i

\* s.substring(0, s.lastIndexOf('/'))
UpToLastSlash(s) == SubSeq(s, 1, LastSlash(s) - 1)

RECURSIVE Split(_)
\* s.split('/')
Split(s) ==
  LET S == {i \in DOMAIN s : s[i] = "/"}
  IN IF S = {} THEN <<s>>
     ELSE <<SubSeq(s, 1, Min(S) - 1)>> \o Split(SubSeq(s, Min(S) + 1, Len(s)))

EndsWith(s, suffix) ==
  /\ Len(suffix) <= Len(s)
  /\ SubSeq(s, Len(s) - Len(suffix) + 1, Len(s)) = suffix

RECURSIVE WalkParts(_, _, _)
\* lines 711-718
WalkParts(parts, i, currentPath) ==
  IF i > Len(parts) THEN currentPath
  ELSE WalkParts(parts, i + 1,
         IF parts[i] = <<".">> THEN currentPath
         ELSE IF parts[i] = <<"..">> THEN UpToLastSlash(currentPath)
         ELSE IF currentPath # <<>> THEN currentPath \o <<"/">> \o parts[i]
         ELSE parts[i])

extensions ==
  << <<".ts">>, <<".ts", "x">>, <<".js">>, <<".js", "x">>,
     <<"/", "index", ".ts">>, <<"/", "index", ".js">> >>

\* ext.startsWith('/') ? ext : ext.replace('.ts', '.ts').replace('.js', '.ts')
ResolvedExtension(ext) ==
  IF ext[1] = "/" THEN ext
  ELSE [i \in DOMAIN ext |-> IF ext[i] = ".js" THEN ".ts" ELSE ext[i]]

\* this.project.getSourceFile(f => f.getFilePath().endsWith(fullPath)) finds a file
SourceFileEndsWith(files, fullPath) ==
  \E f \in DOMAIN files : EndsWith(RootPath \o files[f].relativePath, fullPath)

\* resolveImportPath(fromFile, importPath); <<>> stands for null
resolveImportPath(files, fromFile, importPath) ==
  LET currentPath == WalkParts(Split(importPath), 1, UpToLastSlash(fromFile))
      hits == {e \in DOMAIN extensions : SourceFileEndsWith(files, currentPath \o extensions[e])}
  IN IF hits # {} THEN currentPath \o ResolvedExtension(extensions[Min(hits)])
     ELSE IF EndsWith(currentPath, <<".ts">>) \/ EndsWith(currentPath, <<".js">>)
            THEN currentPath
            ELSE <<>>

\* Set.add on a Set kept in insertion order
SetAdd(seq, e) == IF e \in Range(seq) THEN seq ELSE Append(seq, e)

RECURSIVE FileDeps(_, _, _, _)
\* lines 656-662: the deps of one file, in insertion order
FileDeps(files, info, i, deps) ==
  IF i > Len(info.imports) THEN deps
  ELSE LET resolved == IF StartsWithDot(info.imports[i])
                         THEN resolveImportPath(files, info.relativePath, info.imports[i])
                         ELSE <<>>
       IN FileDeps(files, info, i + 1, IF resolved # <<>> THEN SetAdd(deps, resolved) ELSE deps)

RECURSIVE ImportGraph(_, _, _, _)
\* lines 655-664
ImportGraph(files, infos, i, graph) ==
  IF i > Len(infos) THEN graph
  ELSE ImportGraph(files, infos, i + 1,
         MapSet(graph, infos[i].relativePath, FileDeps(files, infos[i], 1, <<>>)))

\* path.indexOf(dep) + 1
IndexOf(path, e) ==
  LET S == {i \in DOMAIN path : path[i] = e}
  IN IF S = {} THEN 0 ELSE Min(S)

Count(seq, e) == Cardinality({i \in DOMAIN seq : seq[i] = e})

\* [...a].sort().join('->') === [...b].sort().join('->')
SameCycleKey(a, b) ==
  /\ Len(a) = Len(b)
  /\ \A e \in Range(a) \cup Range(b) : Count(a, e) = Count(b, e)

\* RecordCycle that reports the whole path to dep
RecordCycle_WholePath(cycles, path, dep) ==
  LET cycle == Append(path, dep)
  IN IF \E c \in DOMAIN cycles : SameCycleKey(cycles[c], cycle)
       THEN cycles ELSE Append(cycles, cycle)

\* lines 679-689: the cycles after dep was found on the recursion stack
RecordCycle(cycles, path, dep) ==
  LET cycleStart == IndexOf(path, dep)
      cycle == Append(IF cycleStart > 0 THEN SubSeq(path, cycleStart, Len(path))
                      ELSE Append(path, dep), dep)
  IN IF \E c \in DOMAIN cycles : SameCycleKey(cycles[c], cycle)
       THEN cycles ELSE Append(cycles, cycle)

RECURSIVE dfs(_, _, _, _)
RECURSIVE dfsDeps(_, _, _, _, _)
\* lines 669-695, on st = [visited, recursionStack, cycles]
dfs(node, path, st, graph) ==
  LET entered == [st EXCEPT !.visited = @ \cup {node}, !.recursionStack = @ \cup {node}]
      after == IF MapHas(graph, node)
                 THEN dfsDeps(path, graph[node], 1, entered, graph) ELSE entered
  IN [after EXCEPT !.recursionStack = @ \ {node}]

\* the loop over deps, lines 675-691
dfsDeps(path, deps, i, st, graph) ==
  IF i > Len(deps) THEN st
  ELSE LET dep == deps[i]
           next == IF dep \notin st.visited
                     THEN dfs(dep, Append(path, dep), st, graph)
                   ELSE IF dep \in st.recursionStack
                     THEN [st EXCEPT !.cycles = RecordCycle(@, path, dep)]
                   ELSE st
       IN dfsDeps(path, deps, i + 1, next, graph)

\* VisitFiles that starts a traversal at the first file only
VisitFiles_FirstOnly(infos, i, st, graph) ==
  IF i > Len(infos) THEN st
  ELSE dfs(infos[i].relativePath, <<infos[i].relativePath>>, st, graph)

RECURSIVE VisitFiles_FreshVisited(_, _, _, _)
\* VisitFiles that starts every file's traversal with an empty visited set
VisitFiles_FreshVisited(infos, i, st, graph) ==
  IF i > Len(infos) THEN st
  ELSE LET file == infos[i].relativePath
       IN VisitFiles_FreshVisited(infos, i + 1,
            dfs(file, <<file>>, [st EXCEPT !.visited = {}], graph), graph)

RECURSIVE VisitFiles(_, _, _, _)
\* lines 697-701: importGraph.keys() come in insertion order
VisitFiles(infos, i, st, graph) ==
  IF i > Len(infos) THEN st
  ELSE LET file == infos[i].relativePath
       IN VisitFiles(infos, i + 1,
            IF file \notin st.visited THEN dfs(file, <<file>>, st, graph) ELSE st,
            graph)

detectCircularDependencies(files, infos) ==
  LET graph == ImportGraph(files, infos, 1, EmptyMap)
  IN VisitFiles(infos, 1, [visited |-> {}, recursionStack |-> {}, cycles |-> <<>>],
                graph).cycles

----------------------------------------------------------------------------
(* generateSummary *)

\* the length of every ranking: .slice(0, 10)
TopCount == 10

\* the decorator names of the model whose text includes 'Injectable' or 'Service'
ServiceDecorators == {"@Injectable", "@DataService"}

\* cls.decorators.some(d => d.includes('Injectable') || d.includes('Service'))
IsServiceClass(cls) == \E d \in DOMAIN cls.decorators : cls.decorators[d] \in ServiceDecorators

\* Map.set on a Map kept as the sequence of its entries, in insertion order
EntrySet(entries, name, count) ==
  IF \E i \in DOMAIN entries : entries[i].name = name
    THEN [i \in DOMAIN entries |->
            IF entries[i].name = name THEN [entries[i] EXCEPT !.count = count] ELSE entries[i]]
    ELSE Append(entries, [name |-> name, count |-> count])

RECURSIVE EntrySetAll(_, _, _)
EntrySetAll(entries, items, i) ==
  IF i > Len(items) THEN entries
  ELSE EntrySetAll(EntrySet(entries, items[i].name, items[i].count), items, i + 1)

\* lines 735-746: methodCallCounts, one entry per full method name
MethodCallCounts(infos) ==
  EntrySetAll(<<>>,
    Flatten([f \in DOMAIN infos |->
      Flatten([c \in DOMAIN infos[f].classes |->
        [j \in DOMAIN infos[f].classes[c].methods |->
           [name |-> infos[f].classes[c].name \o "." \o infos[f].classes[c].methods[j].name,
            count |-> Cardinality(infos[f].classes[c].methods[j].calledBy)]]])]), 1)

\* lines 742-744: serviceUsageCounts starts at 0 for every class tagged as a service
ServiceClassEntries(infos) ==
  EntrySetAll(<<>>,
    Flatten([f \in DOMAIN infos |->
      Flatten([c \in DOMAIN infos[f].classes |->
        IF IsServiceClass(infos[f].classes[c])
          THEN <<[name |-> infos[f].classes[c].name, count |-> 0]>> ELSE <<>>])]), 1)

\* call.match(/this\.(_?\w+)\./): the property name of the leftmost match, Undef when none
ServiceMatch(call) ==
  LET S == {i \in DOMAIN call : /\ i + 3 <= Len(call)
                                /\ call[i] = "this" /\ call[i + 1] = "."
                                /\ IsWord(call[i + 2]) /\ call[i + 3] = "."}
  IN IF S = {} THEN Undef ELSE call[Min(S) + 2]

\* lines 751-763: the service names the call texts of the scanned methods refer to, in order
ServiceUses(infos, inj) ==
  Flatten([f \in DOMAIN infos |->
    Flatten([c \in DOMAIN infos[f].classes |->
      Flatten([j \in DOMAIN infos[f].classes[c].methods |->
        Flatten([k \in DOMAIN infos[f].classes[c].methods[j].calls |->
          LET propName == ServiceMatch(infos[f].classes[c].methods[j].calls[k])
              serviceName == IF propName # Undef /\ MapHas(inj, infos[f].classes[c].name)
                               THEN MapGet(inj[infos[f].classes[c].name], propName)
                               ELSE Undef
          IN IF Truthy(serviceName) THEN <<serviceName>> ELSE <<>>])])])])

\* lines 748-766: every use whose service name is a key of serviceUsageCounts adds one
\* to that entry; Map.set on an existing key keeps the entry's place
ServiceUsageCounts(infos, inj) ==
  LET entries == ServiceClassEntries(infos)
      uses == ServiceUses(infos, inj)
  IN [i \in DOMAIN entries |->
        [name |-> entries[i].name,
         count |-> Cardinality({k \in DOMAIN uses : uses[k] = entries[i].name})]]

\* .filter(([_, count]) => count > 0)
FilterPositive(entries) ==
  Flatten([i \in DOMAIN entries |-> IF entries[i].count > 0 THEN <<entries[i]>> ELSE <<>>])

\* InsertDescending that puts e in front of the entries of equal count
InsertDescending_BeforeEquals(sorted, e) ==
  LET before == {i \in DOMAIN sorted : sorted[i].count > e.count}
      at == IF before = {} THEN 0 ELSE CHOOSE i \in before : \A j \in before : j <= i
  IN SubSeq(sorted, 1, at) \o <<e>> \o SubSeq(sorted, at + 1, Len(sorted))

\* one step of the stable sort: e goes behind every entry whose count is not smaller
InsertDescending(sorted, e) ==
  LET before == {i \in DOMAIN sorted : sorted[i].count >= e.count}
      at == IF before = {} THEN 0 ELSE CHOOSE i \in before : \A j \in before : j <= i
  IN SubSeq(sorted, 1, at) \o <<e>> \o SubSeq(sorted, at + 1, Len(sorted))

RECURSIVE SortDescending(_, _, _)
\* .sort((a, b) => b.count - a.count): Array.prototype.sort is stable
SortDescending(entries, i, sorted) ==
  IF i > Len(entries) THEN sorted
  ELSE SortDescending(entries, i + 1, InsertDescending(sorted, entries[i]))

\* .slice(0, 10)
SliceTop(entries) ==
  SubSeq(entries, 1, IF Len(entries) < TopCount THEN Len(entries) ELSE TopCount)

\* lines 780-781: one candidate per class, in file and class order
ClassSizeEntries(infos) ==
  Flatten([f \in DOMAIN infos |->
    [c \in DOMAIN infos[f].classes |->
       [name |-> infos[f].classes[c].name, count |-> Len(infos[f].classes[c].methods),
        file |-> infos[f].relativePath]]])

\* line 786: one candidate per file
FileImportEntries(infos) ==
  [f \in DOMAIN infos |-> [file |-> infos[f].relativePath, count |-> Len(infos[f].imports)]]

\* generateSummary(fileInfos); count stands for callerCount, usageCount, methodCount
\* and importCount
generateSummary(infos, inj) ==
  [mostCalledMethods |->
     SliceTop(SortDescending(FilterPositive(MethodCallCounts(infos)), 1, <<>>)),
   mostUsedServices |->
     SliceTop(SortDescending(FilterPositive(ServiceUsageCounts(infos, inj)), 1, <<>>)),
   largestClasses |-> SliceTop(SortDescending(ClassSizeEntries(infos), 1, <<>>)),
   filesByImports |-> SliceTop(SortDescending(FileImportEntries(infos), 1, <<>>))]

----------------------------------------------------------------------------
(* analyzeInterfaceImplementations *)

\* CleanName that keeps the type arguments
CleanName_KeepArguments(iface) == Text(iface)

\* iface.replace(/<.*>/, '').trim(): the text without its first "<" through its last ">"
CleanName(iface) ==
  LET opens == {i \in DOMAIN iface : iface[i] = "<"}
      closes == {i \in DOMAIN iface : iface[i] = ">" /\ opens # {} /\ i > Min(opens)}
  IN IF opens = {} \/ closes = {} THEN Text(iface)
     ELSE Text(SubSeq(iface, 1, Min(opens) - 1)
                 \o SubSeq(iface, (CHOOSE i \in closes : \A j \in closes : j <= i) + 1,
                           Len(iface)))

\* interfaceMap.get(cleanName).add(cls.name), on the entries in insertion order
AddImplementor(entries, cleanName, className) ==
  IF \E i \in DOMAIN entries : entries[i].interfaceName = cleanName
    THEN [i \in DOMAIN entries |->
            IF entries[i].interfaceName = cleanName
              THEN [entries[i] EXCEPT !.implementedBy = SetAdd(@, className)]
              ELSE entries[i]]
    ELSE Append(entries, [interfaceName |-> cleanName, implementedBy |-> <<className>>])

RECURSIVE InterfaceMap(_, _, _)
\* lines 857-867, over the <<interface text, class name>> pairs in scan order
InterfaceMap(entries, pairs, i) ==
  IF i > Len(pairs) THEN entries
  ELSE InterfaceMap(AddImplementor(entries, CleanName(pairs[i][1]), pairs[i][2]), pairs, i + 1)

\* one step of the stable sort by implementedBy.length, largest first
InsertByImplementors(sorted, e) ==
  LET before == {i \in DOMAIN sorted : Len(sorted[i].implementedBy) >= Len(e.implementedBy)}
      at == IF before = {} THEN 0 ELSE CHOOSE i \in before : \A j \in before : j <= i
  IN SubSeq(sorted, 1, at) \o <<e>> \o SubSeq(sorted, at + 1, Len(sorted))

RECURSIVE SortByImplementors(_, _, _)
SortByImplementors(entries, i, sorted) ==
  IF i > Len(entries) THEN sorted
  ELSE SortByImplementors(entries, i + 1, InsertByImplementors(sorted, entries[i]))

analyzeInterfaceImplementations(infos) ==
  LET classes == AllClasses(infos)
      pairs == Flatten([c \in DOMAIN classes |->
                 [k \in DOMAIN classes[c].implements |->
                    <<classes[c].implements[k], classes[c].name>>]])
  IN SortByImplementors(InterfaceMap(<<>>, pairs, 1), 1, <<>>)

----------------------------------------------------------------------------
(* buildCallChains *)

\* scan(): this.buildCallChains(fileInfos, 3)
CallChainDepth == 3

\* .slice(0, 5)
ChainLimit == 5

\* caller.startsWith('template:'): the identities addTemplateBindingsToCallGraph makes
IsTemplateIdentity(caller, infos) ==
  \E f \in DOMAIN infos : caller = "template:" \o Text(infos[f].relativePath)

RECURSIVE getCallChain_DepthOnly(_, _, _, _, _)
\* getCallChain without the visited test
getCallChain_DepthOnly(methodName, depth, visited, rev, infos) ==
  IF depth <= 0 THEN {}
  ELSE LET callers == IF MapHas(rev, methodName) THEN rev[methodName] ELSE {}
           via(caller) ==
             IF IsTemplateIdentity(caller, infos) THEN {<<caller, methodName>>}
             ELSE LET parentChains == getCallChain_DepthOnly(caller, depth - 1,
                                        visited \cup {methodName}, rev, infos)
                  IN IF parentChains = {} THEN {<<caller, methodName>>}
                     ELSE {Append(chain, methodName) : chain \in parentChains}
       IN IF callers = {} THEN {<<methodName>>}
          ELSE UNION {via(caller) : caller \in callers}

RECURSIVE getCallChain(_, _, _, _, _)
\* lines 810-837: the chains found, as a set (no two of them are equal)
getCallChain(methodName, depth, visited, rev, infos) ==
  IF depth <= 0 \/ methodName \in visited THEN {}
  ELSE LET callers == IF MapHas(rev, methodName) THEN rev[methodName] ELSE {}
           via(caller) ==
             IF IsTemplateIdentity(caller, infos) THEN {<<caller, methodName>>}
             ELSE LET parentChains == getCallChain(caller, depth - 1,
                                                   visited \cup {methodName}, rev, infos)
                  IN IF parentChains = {} THEN {<<caller, methodName>>}
                     ELSE {Append(chain, methodName) : chain \in parentChains}
       IN IF callers = {} THEN {<<methodName>>}
          ELSE UNION {via(caller) : caller \in callers}

\* RetainedChains without the slice
RetainedChains_KeepAll(chains) == {{c \in chains : Len(c) > 1}}

\* chains.filter(c => c.length > 1).slice(0, 5): all of them when there are at most
\* five; which five are first follows the insertion order of the callers
RetainedChains(chains) ==
  LET long == {c \in chains : Len(c) > 1}
  IN IF Cardinality(long) <= ChainLimit THEN {long}
     ELSE {kept \in SUBSET long : Cardinality(kept) = ChainLimit}

\* lines 841-848: the values method.callChain may get; the field stays absent (no chain)
\* unless a chain of more than one element was found
MethodCallChains(className, method, rev, infos) ==
  LET chains == getCallChain(className \o "." \o method.name, CallChainDepth, {}, rev, infos)
  IN IF method.calledBy # {} /\ \E c \in chains : Len(c) > 1
       THEN {[method EXCEPT !.callChain = kept] : kept \in RetainedChains(chains)}
       ELSE {method}

RECURSIVE SeqChoices(_)
\* the sequences that take their i-th element from the i-th set
SeqChoices(sets) ==
  IF sets = <<>> THEN {<<>>}
  ELSE {<<h>> \o t : h \in Head(sets), t \in SeqChoices(Tail(sets))}

\* buildCallChains(fileInfos, 3): the fileInfos it may leave
buildCallChains(infos, rev) ==
  SeqChoices([f \in DOMAIN infos |->
    {[infos[f] EXCEPT !.classes = classes] :
       classes \in SeqChoices([c \in DOMAIN infos[f].classes |->
         {[infos[f].classes[c] EXCEPT !.methods = methods] :
            methods \in SeqChoices([j \in DOMAIN infos[f].classes[c].methods |->
              MethodCallChains(infos[f].classes[c].name,
                               infos[f].classes[c].methods[j], rev, infos)])}])}])

----------------------------------------------------------------------------
(* The scanned projects: source files as the SourceIndex presents them *)

Cls(name, ext, decorators, methods, properties, ctorParams, templateBindings) ==
  [name |-> name, extends |-> ext, implements |-> <<>>, decorators |-> decorators,
   methods |-> methods, properties |-> properties, ctorParams |-> ctorParams,
   templateBindings |-> templateBindings]

Meth(name, modifiers, calls) == [name |-> name, modifiers |-> modifiers, calls |-> calls]

Fn(name, exported, calls, locals) ==
  [name |-> name, exported |-> exported, calls |-> calls, locals |-> locals]

SrcFile(relativePath, imports, classes, functions) ==
  [relativePath |-> relativePath, imports |-> imports, classes |-> classes,
   functions |-> functions]

InjectInit(type) == <<"inject", "(", type, ")">>

Prop(name, type) == [name |-> name, initializer |-> InjectInit(type)]

Param(name, type) == [name |-> name, type |-> type]

\* the call texts used by the projects: the callee text of every call expression of a
\* body, so a text that holds a call holds that call's callee text beside it
CallDirect == <<"this", ".", "_b", ".", "find">>
CallNested == <<"this", ".", "_b", ".", "c", ".", "find">>
CallParent == <<"this", ".", "_b", ".", "parent", ".", "find">>
CallHelper == <<"helper">>
CallInline == <<"inject", "(", "Store", ")", ".", "find">>
CallMixed ==
  <<"this", ".", "_b", ".", "wrap", "(", "inject", "(", "Store", ")", ".", "find", ")",
    ".", "then">>
CallUnbound == <<"this", ".", "zz", ".", "find">>
CallWrap == <<"this", ".", "_b", ".", "wrap">>
CallInject == <<"inject">>
CallStatic == <<"Repo", ".", "find">>

\* how class Alpha binds _b to Repo
AlphaBindings == {"prop", "ctor", "none"}

\* what class Repo binds: nothing, c -> Store, parent -> Repo, find -> LogService
RepoBindings == {"none", "store", "self", "find"}

AlphaCallLists ==
  {<<>>, <<CallDirect>>, <<CallNested>>, <<CallParent>>, <<CallHelper>>,
   <<CallInline, CallInject>>, <<CallMixed, CallWrap, CallInject>>,
   <<CallUnbound>>, <<CallStatic>>, <<CallDirect, CallNested>>,
   <<CallNested, CallStatic>>}

FunctionSets == {"none", "helper", "boot"}

AlphaClass(bind, calls) ==
  Cls("Alpha", Undef, <<>>, <<Meth("run", {}, calls)>>,
      IF bind = "prop" THEN <<Prop("_b", "Repo")>> ELSE <<>>,
      IF bind = "ctor" THEN <<Param("_b", "Repo")>> ELSE <<>>, <<>>)

RepoClass(bind) ==
  Cls("Repo", Undef, <<"@Injectable">>, <<Meth("find", {}, <<>>), Meth("wrap", {}, <<>>)>>,
      IF bind = "store" THEN <<Prop("c", "Store")>> ELSE <<>>,
      IF bind = "self" THEN <<Param("parent", "Repo")>>
      ELSE IF bind = "find" THEN <<Param("find", "LogService")>> ELSE <<>>, <<>>)

StoreClass == Cls("Store", Undef, <<"@Injectable">>, <<Meth("find", {}, <<>>)>>, <<>>, <<>>, <<>>)

InjectionFunctions(kind) ==
  IF kind = "none" THEN <<>>
  ELSE IF kind = "helper" THEN <<Fn("helper", FALSE, <<>>, <<>>)>>
  ELSE <<Fn("helper", TRUE, <<>>, <<>>),
         Fn("boot", FALSE,
            <<CallInject, <<"r", ".", "find">>, <<"helper">>, <<"q", ".", "find">>>>,
            <<[name |-> "r", initializer |-> InjectInit("Repo")],
              [name |-> "q", initializer |-> <<"new", "Store", "(", ")">>]>>)>>

InjectionFiles(aBind, bBind, calls, fns) ==
  << SrcFile(<<"alpha", ".ts">>, <<>>, <<AlphaClass(aBind, calls)>>, InjectionFunctions(fns)),
     SrcFile(<<"repo", ".ts">>, <<>>, <<RepoClass(bBind)>>, <<>>),
     SrcFile(<<"store", ".ts">>, <<>>, <<StoreClass>>, <<>>) >>

Reverse(s) == [i \in DOMAIN s |-> s[Len(s) + 1 - i]]

InjectionProjects ==
  UNION {{InjectionFiles(a, b, c, f), Reverse(InjectionFiles(a, b, c, f))} :
           <<a, b, c, f>> \in AlphaBindings \X RepoBindings \X AlphaCallLists \X FunctionSets}

\* a component, its template, a host class calling it and two free functions
PanelMethods(loadCallsHelper) ==
  << Meth("ngOnInit", {}, <<>>), Meth("_tidy", {"private"}, <<>>), Meth("_open", {}, <<>>),
     Meth("save", {"private"}, <<>>),
     Meth("load", {}, IF loadCallsHelper THEN <<CallHelper>> ELSE <<>>) >>

PanelTemplates ==
  {<<>>, <<<<"save", "(", ")">>>>, <<<<"items">>, <<"load", "(", "id", ")">>>>,
   <<<<"_open", "(", ")">>, <<"busy">>>>}

HostCalls == {"", "load", "_tidy", "ngOnInit"}

PanelFiles(tpl, hostCall, helperExported, loadCallsHelper, modelFirst) ==
  LET panel == Cls("Panel", Undef, <<"@Component">>, PanelMethods(loadCallsHelper),
                   <<>>, <<>>, tpl)
      model == Cls("Model", Undef, <<>>, <<Meth("load", {}, <<>>)>>, <<>>, <<>>, <<>>)
      host == Cls("Host", Undef, <<>>,
                  <<Meth("open", {},
                      IF hostCall = "" THEN <<>> ELSE <<<<"this", ".", "p", ".", hostCall>>>>)>>,
                  <<Prop("p", "Panel")>>, <<>>, <<>>)
  IN << SrcFile(<<"app", "/", "panel", ".ts">>, <<>>,
                IF modelFirst THEN <<model, panel>> ELSE <<panel>>,
                <<Fn("helper", helperExported, <<<<"util">>>>, <<>>),
                  Fn("util", FALSE, <<>>, <<>>),
                  Fn("setup", TRUE, <<>>, <<>>)>>),
        SrcFile(<<"app", "/", "host", ".ts">>, <<>>, <<host>>, <<>>) >>

PanelProjects ==
  {PanelFiles(t, h, e, l, m) :
     <<t, h, e, l, m>> \in PanelTemplates \X HostCalls \X BOOLEAN \X BOOLEAN \X BOOLEAN}

\* three classes and their extends clauses
ExtendsChoices == {Undef, "P", "Q", "R"}

PlainClass(name, ext, methodNames) ==
  Cls(name, ext, <<>>, [j \in DOMAIN methodNames |-> Meth(methodNames[j], {}, <<>>)],
      <<>>, <<>>, <<>>)

InheritanceFiles(eP, eQ, eR, mP, mQ) ==
  << SrcFile(<<"shapes", ".ts">>, <<>>,
       <<PlainClass("P", eP, mP), PlainClass("Q", eQ, mQ), PlainClass("R", eR, <<"h">>)>>,
       <<>>) >>

InheritanceProjects ==
  {InheritanceFiles(eP, eQ, eR, mP, mQ) :
     <<eP, eQ, eR, mP, mQ>> \in
       ExtendsChoices \X ExtendsChoices \X ExtendsChoices
         \X {<<"f", "g">>, <<>>} \X {<<"g">>, <<"h", "f">>}}

\* two files importing each other
ExtensionChoices == {<<".ts">>, <<".ts", "x">>, <<".js">>, <<".js", "x">>}

Layouts == {"root", "dir", "nested"}

\* how a specifier ends: no extension, the target's own, or ".js" for a TypeScript target
SpecifierStyles == {"bare", "own", "js"}

ImportSpecifier(prefix, name, ext, style) ==
  prefix \o <<name>> \o
    (IF style = "bare" THEN <<>> ELSE IF style = "own" THEN ext ELSE <<".js">>)

MutualFiles(extX, extY, layout, style, extra) ==
  LET dirX == IF layout = "dir" THEN <<"app", "/">> ELSE <<>>
      dirY == IF layout = "dir" THEN <<"app", "/">>
              ELSE IF layout = "nested" THEN <<"lib", "/">> ELSE <<>>
      toY == IF layout = "nested" THEN <<".", "/", "lib", "/">> ELSE <<".", "/">>
      toX == IF layout = "nested" THEN <<"..", "/">> ELSE <<".", "/">>
  IN << SrcFile(dirX \o <<"x">> \o extX,
                (IF extra THEN <<<<"rxjs">>>> ELSE <<>>)
                  \o <<ImportSpecifier(toY, "y", extY, style)>>, <<>>, <<>>),
        SrcFile(dirY \o <<"y">> \o extY,
                <<ImportSpecifier(toX, "x", extX, style)>>, <<>>, <<>>) >>

ExtensionPairs ==
  {<<e, e>> : e \in ExtensionChoices} \cup {<<<<".ts">>, <<".js">>>>}

MutualImportProjects ==
  UNION {{MutualFiles(p[1], p[2], l, s, x), Reverse(MutualFiles(p[1], p[2], l, s, x))} :
           <<p, l, s, x>> \in ExtensionPairs \X Layouts \X SpecifierStyles \X BOOLEAN}

\* two files that may declare a class and a free function under the same names
TwinClassNames == {"Worker", "Clerk"}

TwinFunctionNames == {"boot", "start"}

\* what a free function binds r to in its body
LocalBindings == {"none", "repo", "store"}

CallLocalFind == <<"r", ".", "find">>
CallLocalWrap == <<"r", ".", "wrap">>

\* a free function whose body may declare r = inject(T) and calls a method on r
TwinFunction(name, bind, call) ==
  Fn(name, FALSE,
     (IF bind = "none" THEN <<>> ELSE <<CallInject>>) \o <<call>>,
     IF bind = "none" THEN <<>>
     ELSE <<[name |-> "r",
             initializer |-> InjectInit(IF bind = "repo" THEN "Repo" ELSE "Store")]>>)

TwinFiles(clsB, fnB, bindA, bindB, bareCall) ==
  << SrcFile(<<"a", "/", "job", ".ts">>, <<>>,
             <<Cls("Worker", Undef, <<>>, <<Meth("run", {}, <<CallHelper>>)>>,
                   <<>>, <<>>, <<>>)>>,
             <<TwinFunction("boot", bindA, CallLocalFind)>>),
     SrcFile(<<"b", "/", "job", ".ts">>, <<>>,
             <<Cls(clsB, Undef, <<>>,
                   <<Meth("run", {}, IF bareCall THEN <<CallLocalFind>> ELSE <<CallStatic>>)>>,
                   <<Prop("r", "Repo")>>, <<>>, <<>>)>>,
             <<TwinFunction(fnB, bindB, CallLocalWrap)>>),
     SrcFile(<<"repo", ".ts">>, <<>>, <<RepoClass("none")>>, <<>>),
     SrcFile(<<"store", ".ts">>, <<>>, <<StoreClass>>, <<>>) >>

TwinProjects ==
  UNION {{TwinFiles(c, f, a, b, m), Reverse(TwinFiles(c, f, a, b, m))} :
           <<c, f, a, b, m>> \in TwinClassNames \X TwinFunctionNames
                                  \X {"none", "repo"} \X LocalBindings \X BOOLEAN}

\* three files and every set of relative imports among them, themselves included
CycleFileNames == <<"a", "b", "c">>

CycleImports(targets) ==
  Flatten([i \in DOMAIN CycleFileNames |->
    IF CycleFileNames[i] \in targets THEN <<<<".", "/", CycleFileNames[i]>>>> ELSE <<>>])

CycleFiles(ta, tb, tc) ==
  << SrcFile(<<"a", ".ts">>, CycleImports(ta), <<>>, <<>>),
     SrcFile(<<"b", ".ts">>, CycleImports(tb), <<>>, <<>>),
     SrcFile(<<"c", ".ts">>, CycleImports(tc), <<>>, <<>>) >>

CycleProjects ==
  {CycleFiles(ta, tb, tc) :
     <<ta, tb, tc>> \in (SUBSET Range(CycleFileNames)) \X (SUBSET Range(CycleFileNames))
                          \X (SUBSET Range(CycleFileNames))}

\* projects whose classes implement interfaces: plain, generic, the same interface with
\* two argument lists, and two classes of one name
ImplementsChoices ==
  { <<>>,
    << <<"Shape">> >>,
    << <<"Shape", "<", "T", ">">>, <<"Shape", "<", "U", ">">> >>,
    << <<"Shape">>, <<"Store", "<", "K", ",", "V", ">">> >>,
    << <<"Nested", "<", "Box", "<", "T", ">", ">">> >> }

ImplementingClass(name, ifaces) ==
  [Cls(name, Undef, <<>>, <<Meth("draw", {}, <<>>)>>, <<>>, <<>>, <<>>)
     EXCEPT !.implements = ifaces]

ImplementsFiles(x, y, z, third) ==
  << SrcFile(<<"a", ".ts">>, <<>>,
             <<ImplementingClass("Circle", x), ImplementingClass("Square", y)>>, <<>>),
     SrcFile(<<"b", ".ts">>, <<>>, <<ImplementingClass(third, z)>>, <<>>) >>

ImplementsProjects ==
  {ImplementsFiles(x, y, z, third) :
     x \in ImplementsChoices, y \in ImplementsChoices,
     z \in {<<>>, << <<"Shape">> >>, << <<"Store", "<", "K", ",", "V", ">">> >>},
     third \in {"Ring", "Circle"}}

\* projects with layered and cyclic calls: Top1..Top3.go call Mid1.a and Mid2.a, which
\* call Leaf.m; Leaf.m may call back Top1.go, Mid1.a may call itself, and Top1 may be
\* a component whose template calls go()
ChainTops == <<"Top1", "Top2", "Top3">>

ChainMids == <<"Mid1", "Mid2">>

ChainTop(i, callsMids, component) ==
  Cls(ChainTops[i], Undef, IF component THEN <<"@Component">> ELSE <<>>,
      <<Meth("go", {},
             IF callsMids
               THEN [k \in DOMAIN ChainMids |-> <<"this", ".", "m" \o ToString(k), ".", "a">>]
               ELSE <<>>)>>,
      [k \in DOMAIN ChainMids |-> Prop("m" \o ToString(k), ChainMids[k])], <<>>,
      IF component THEN <<<<"go", "(", ")">>>> ELSE <<>>)

ChainMid(k, selfCall) ==
  Cls(ChainMids[k], Undef, <<>>,
      <<Meth("a", {},
             <<<<"this", ".", "leaf", ".", "m">>>>
               \o (IF selfCall THEN <<<<"this", ".", "me", ".", "a">>>> ELSE <<>>))>>,
      <<Prop("leaf", "Leaf"), Prop("me", ChainMids[k])>>, <<>>, <<>>)

ChainLeaf(callsBack) ==
  Cls("Leaf", Undef, <<>>,
      <<Meth("m", {}, IF callsBack THEN <<<<"this", ".", "t", ".", "go">>>> ELSE <<>>)>>,
      <<Prop("t", "Top1")>>, <<>>, <<>>)

ChainFiles(tops, selfCall, callsBack, component) ==
  << SrcFile(<<"top", ".ts">>, <<>>,
             [i \in DOMAIN ChainTops |-> ChainTop(i, i \in tops, component /\ i = 1)], <<>>),
     SrcFile(<<"mid", ".ts">>, <<>>,
             [k \in DOMAIN ChainMids |-> ChainMid(k, selfCall /\ k = 1)], <<>>),
     SrcFile(<<"leaf", ".ts">>, <<>>, <<ChainLeaf(callsBack)>>, <<>>) >>

\* the calls close a cycle (selfCall, callsBack) in the projects of one or two calling
\* tops; the project of three calling tops gives Leaf.m six chains
ChainProjects ==
  {ChainFiles(tops, selfCall, callsBack, FALSE) :
     tops \in {{1}, {1, 2}}, selfCall \in BOOLEAN, callsBack \in BOOLEAN}
  \cup {ChainFiles(tops, FALSE, FALSE, TRUE) : tops \in {{1}, {1, 2}, {1, 2, 3}}}

\* projects where the classes, the calls and the imports all run in a circle: Ka in
\* ka.ts extends Kb (or itself) and calls this.peer.g, Kb in kb.ts extends Ka and calls
\* this.peer.f, and each file imports the other
KnotFiles(selfExtends) ==
  << SrcFile(<<"ka", ".ts">>, <<<<".", "/", "kb">>>>,
             <<Cls("Ka", IF selfExtends THEN "Ka" ELSE "Kb", <<>>,
                   <<Meth("f", {}, <<<<"this", ".", "peer", ".", "g">>>>)>>,
                   <<Prop("peer", "Kb")>>, <<>>, <<>>)>>, <<>>),
     SrcFile(<<"kb", ".ts">>, <<<<".", "/", "ka">>>>,
             <<Cls("Kb", "Ka", <<>>,
                   <<Meth("g", {}, <<<<"this", ".", "peer", ".", "f">>>>)>>,
                   <<Prop("peer", "Ka")>>, <<>>, <<>>)>>, <<>>) >>

KnotProjects == {KnotFiles(selfExtends) : selfExtends \in BOOLEAN}

\* projects with more candidates than a ranking has places: RankedFiles service classes
\* K1, K2, ... in files of their own, and a class Hub that binds every one of them.
\* Service Ki has counts[i] methods, its file has counts[i] imports, and counts[i]
\* methods of Hub call this.si.m1
RankedFiles == 12

RankedLevels == 2

RankedName(i) == "K" \o ToString(i)

RankedService(i, c) ==
  SrcFile(<<"k" \o ToString(i), ".ts">>,
          [j \in 1..c |-> <<"lib" \o ToString(j)>>],
          <<Cls(RankedName(i), Undef, <<"@Injectable">>,
                [j \in 1..c |-> Meth("m" \o ToString(j), {}, <<>>)], <<>>, <<>>, <<>>)>>,
          <<>>)

RankedHub(counts) ==
  SrcFile(<<"hub", ".ts">>, <<>>,
          <<Cls("Hub", Undef, <<>>,
                [j \in 1..RankedLevels |->
                   Meth("run" \o ToString(j), {},
                        Flatten([i \in 1..RankedFiles |->
                          IF counts[i] >= j
                            THEN <<<<"this", ".", "s" \o ToString(i), ".", "m1">>>>
                            ELSE <<>>]))],
                [i \in 1..RankedFiles |-> Prop("s" \o ToString(i), RankedName(i))],
                <<>>, <<>>)>>,
          <<>>)

\* the counts vary at the first two services and at the last one
RankedCounts ==
  {counts \in [1..RankedFiles -> 0..RankedLevels] :
     \A i \in 3..(RankedFiles - 1) : counts[i] = 1 + (i % RankedLevels)}

RankedProjects ==
  {<<RankedHub(counts)>> \o [i \in 1..RankedFiles |-> RankedService(i, counts[i])] :
     counts \in RankedCounts}

Projects == InjectionProjects \cup PanelProjects \cup InheritanceProjects
              \cup MutualImportProjects \cup TwinProjects \cup CycleProjects
              \cup RankedProjects \cup ImplementsProjects \cup ChainProjects
              \cup KnotProjects

----------------------------------------------------------------------------
(* scan(): one action per pass *)

\* the number of scan() calls the caller of a ProjectScanner makes
MaxScans == 2

\* scan() may be entered: by a caller holding the scanner, or by main() once
MayStartScan ==
  \/ mpc = "lib" /\ Len(outputs) < MaxScans
  \/ mpc = "scan" /\ outputs = <<>>

\* lines 31-41: scan() is entered and the files are added to the SourceIndex
StartScan ==
  /\ pc = "idle"
  /\ MayStartScan
  /\ pc' = "collectClassInfo"
  /\ fileInfos' = <<>>
  /\ deadCode' = <<>>
  /\ inheritance' = <<>>
  /\ circularDependencies' = <<>>
  /\ summary' = Undef
  /\ interfaceImplementations' = <<>>
  /\ UNCHANGED <<project, framework, scannerVars, outputs, mainVars>>

\* line 44
CollectClassInfo ==
  /\ pc = "collectClassInfo"
  /\ LET r == collectClassInfo(project, classMethodsMap, injectionMap)
     IN /\ classMethodsMap' = r.classMethodsMap
        /\ injectionMap' = r.injectionMap
        /\ nestedInjectionMap' = r.nestedInjectionMap
  /\ pc' = "scanFile"
  /\ UNCHANGED <<project, framework, callGraph, reverseCallGraph, localInjectionMap,
                 fileInfos, deadCode, inheritance, circularDependencies, summary,
                 interfaceImplementations, outputs, mainVars>>

\* lines 47-58: one iteration of the loop over the source files
ScanFile ==
  /\ pc = "scanFile"
  /\ Len(fileInfos) < Len(project)
  /\ LET file == project[Len(fileInfos) + 1]
         bindings == IF framework = "angular" THEN scanAngularTemplate(file) ELSE <<>>
     IN /\ fileInfos' = Append(fileInfos, scanFile(file))
        /\ callGraph' = SetCallGraph(callGraph,
                          FileMethodEntries(file) \o FileFunctionEntries(file), 1)
        /\ localInjectionMap' = SetLocalInjections(localInjectionMap, file.functions, 1)
        /\ reverseCallGraph' = AddEdges(reverseCallGraph,
                                 RawMethodEdges(file) \cup TemplateEdges(file, bindings))
  /\ UNCHANGED <<project, framework, classMethodsMap, injectionMap, nestedInjectionMap,
                 pc, deadCode, inheritance, circularDependencies, summary,
                 interfaceImplementations, outputs, mainVars>>

\* line 61
ResolveCrossFileCalls ==
  /\ pc = "scanFile"
  /\ Len(fileInfos) = Len(project)
  /\ reverseCallGraph' = resolveCrossFileCalls(fileInfos, reverseCallGraph, injectionMap,
                           nestedInjectionMap, localInjectionMap, classMethodsMap)
  /\ pc' = "buildCallGraph"
  /\ UNCHANGED <<project, framework, callGraph, classMethodsMap, injectionMap,
                 nestedInjectionMap, localInjectionMap, fileInfos, deadCode, inheritance,
                 circularDependencies, summary, interfaceImplementations, outputs,
                 mainVars>>

\* line 63
BuildCallGraph ==
  /\ pc = "buildCallGraph"
  /\ fileInfos' = buildCallGraph(fileInfos, reverseCallGraph)
  /\ pc' = "detectDeadCode"
  /\ UNCHANGED <<project, framework, scannerVars, deadCode, inheritance,
                 circularDependencies, summary, interfaceImplementations, outputs,
                 mainVars>>

\* line 69
DetectDeadCode ==
  /\ pc = "detectDeadCode"
  /\ deadCode' = detectDeadCode(fileInfos, reverseCallGraph)
  /\ pc' = "analyzeInheritance"
  /\ UNCHANGED <<project, framework, scannerVars, fileInfos, inheritance,
                 circularDependencies, summary, interfaceImplementations, outputs,
                 mainVars>>

\* line 70
AnalyzeInheritance ==
  /\ pc = "analyzeInheritance"
  /\ inheritance' = analyzeInheritance(fileInfos)
  /\ pc' = "detectCircularDependencies"
  /\ UNCHANGED <<project, framework, scannerVars, fileInfos, deadCode,
                 circularDependencies, summary, interfaceImplementations, outputs,
                 mainVars>>

\* line 71
DetectCircularDependencies ==
  /\ pc = "detectCircularDependencies"
  /\ circularDependencies' = detectCircularDependencies(project, fileInfos)
  /\ pc' = "generateSummary"
  /\ UNCHANGED <<project, framework, scannerVars, fileInfos, deadCode, inheritance,
                 summary, interfaceImplementations, outputs, mainVars>>

\* line 72
GenerateSummary ==
  /\ pc = "generateSummary"
  /\ summary' = generateSummary(fileInfos, injectionMap)
  /\ pc' = "analyzeInterfaceImplementations"
  /\ UNCHANGED <<project, framework, scannerVars, fileInfos, deadCode, inheritance,
                 circularDependencies, interfaceImplementations, outputs, mainVars>>

\* line 73
AnalyzeInterfaceImplementations ==
  /\ pc = "analyzeInterfaceImplementations"
  /\ interfaceImplementations' = analyzeInterfaceImplementations(fileInfos)
  /\ pc' = "buildCallChains"
  /\ UNCHANGED <<project, framework, scannerVars, fileInfos, deadCode, inheritance,
                 circularDependencies, summary, outputs, mainVars>>

\* line 75
BuildCallChains ==
  /\ pc = "buildCallChains"
  /\ fileInfos' \in buildCallChains(fileInfos, reverseCallGraph)
  /\ pc' = "return"
  /\ UNCHANGED <<project, framework, scannerVars, deadCode, inheritance,
                 circularDependencies, summary, interfaceImplementations, outputs,
                 mainVars>>

\* lines 81-91: the ScanOutput handed to the caller
ReturnOutput ==
  /\ pc = "return"
  /\ outputs' = Append(outputs,
       [files |-> fileInfos, callGraph |-> callGraph, deadCode |-> deadCode,
        inheritance |-> inheritance, circularDependencies |-> circularDependencies,
        summary |-> summary, interfaceImplementations |-> interfaceImplementations])
  /\ pc' = "idle"
  /\ UNCHANGED <<project, framework, scannerVars, fileInfos, deadCode, inheritance,
                 circularDependencies, summary, interfaceImplementations, mainVars>>

ScanNext ==
  \/ StartScan
  \/ CollectClassInfo
  \/ ScanFile
  \/ ResolveCrossFileCalls
  \/ BuildCallGraph
  \/ DetectDeadCode
  \/ AnalyzeInheritance
  \/ DetectCircularDependencies
  \/ GenerateSummary
  \/ AnalyzeInterfaceImplementations
  \/ BuildCallChains
  \/ ReturnOutput

\* a ProjectScanner as its constructor leaves it
FreshScanner ==
  /\ callGraph = EmptyMap
  /\ reverseCallGraph = EmptyMap
  /\ classMethodsMap = EmptyMap
  /\ injectionMap = EmptyMap
  /\ nestedInjectionMap = EmptyMap
  /\ localInjectionMap = EmptyMap
  /\ pc = "idle"
  /\ fileInfos = <<>>
  /\ deadCode = <<>>
  /\ inheritance = <<>>
  /\ circularDependencies = <<>>
  /\ summary = Undef
  /\ interfaceImplementations = <<>>
  /\ outputs = <<>>

DefaultConfig ==
  [path |-> "", framework |-> "angular", depth |-> "10", include |-> "default",
   exclude |-> "", query |-> Undef]

\* a caller that constructed a ProjectScanner over the project and calls scan()
Init ==
  /\ project \in Projects
  /\ framework \in (IF project \in PanelProjects THEN {"angular", "generic"} ELSE {"angular"})
  /\ FreshScanner
  /\ args = <<>>
  /\ argi = 1
  /\ config = DefaultConfig
  /\ mpc = "lib"
  /\ exitCode = Undef
  /\ written = {}

Next == ScanNext

Spec == Init /\ [][Next]_vars

\* the projects with extension cycles, cyclic calls, import cycles or (KnotProjects)
\* all of them
CyclicProjects == InheritanceProjects \cup ChainProjects \cup CycleProjects
                    \cup KnotProjects

InitCyclic == Init /\ project \in CyclicProjects

\* scan() is straight-line synchronous code: once entered, the pass at hand runs and the
\* next one starts. This is weak fairness of the passes, WF_vars(pc # "idle" /\ Next),
\* written out with the passes' enabling condition pc # "idle" in place of ENABLED
PassesRun == []<>(pc = "idle") \/ []<><<pc # "idle" /\ Next>>_vars

SpecCyclic == InitCyclic /\ [][Next]_vars /\ PassesRun

----------------------------------------------------------------------------
(* What the properties speak of *)

\* resolveCrossFileCalls has run in the current scan(), or scan() has returned
AfterResolve ==
  \/ pc \in {"buildCallGraph", "detectDeadCode", "analyzeInheritance",
             "detectCircularDependencies", "generateSummary",
             "analyzeInterfaceImplementations", "buildCallChains", "return"}
  \/ pc = "idle" /\ outputs # <<>>

\* detectDeadCode has run in the current scan()
AfterDeadCode ==
  pc \in {"analyzeInheritance", "detectCircularDependencies", "generateSummary",
          "analyzeInterfaceImplementations", "buildCallChains", "return"}

\* the first scan() of the scanner, up to its return
FirstScan == outputs = <<>> \/ (Len(outputs) = 1 /\ pc = "idle")

\* the callers the reverse call graph holds under a key
Callers(key) == IF MapHas(reverseCallGraph, key) THEN reverseCallGraph[key] ELSE {}

\* the class type a class's binding map gives an identifier, Undef when none
Binding(className, id) ==
  IF MapHas(injectionMap, className) THEN MapGet(injectionMap[className], id) ELSE Undef

\* some scanned class of that name declares the method
Declares(className, methodName) ==
  \E f \in DOMAIN project : \E c \in DOMAIN project[f].classes :
    /\ project[f].classes[c].name = className
    /\ \E j \in DOMAIN project[f].classes[c].methods :
         project[f].classes[c].methods[j].name = methodName

\* the methods of the scanned files: <<file, class, method>> indices into fileInfos
MethodSites ==
  UNION {UNION {{<<f, c, j>> : j \in DOMAIN fileInfos[f].classes[c].methods}
                  : c \in DOMAIN fileInfos[f].classes}
           : f \in DOMAIN fileInfos}

SiteClass(s) == fileInfos[s[1]].classes[s[2]]

SiteMethod(s) == fileInfos[s[1]].classes[s[2]].methods[s[3]]

SiteFullName(s) == SiteClass(s).name \o "." \o SiteMethod(s).name

\* the free functions of the scanned files: <<file, function>> indices into fileInfos
FunctionSites ==
  UNION {{<<f, j>> : j \in DOMAIN fileInfos[f].functions} : f \in DOMAIN fileInfos}

SiteFunction(s) == fileInfos[s[1]].functions[s[2]]

----------------------------------------------------------------------------
(* C1 *)

\* the call text is exactly this.<id>.<m>
IsDirectCall(call) == Len(call) = 5 /\ SimpleMatches(call)

\* C1 as stated: whenever A binds id to B and B declares m, a call text this.id.m in
\* method x of A puts caller A.x under key B.m once resolveCrossFileCalls has run.
C1_DirectResolution_AsStated ==
  AfterResolve =>
    \A s \in MethodSites : \A k \in DOMAIN SiteMethod(s).calls :
      LET call == SiteMethod(s).calls[k]
          B == Binding(SiteClass(s).name, call[3])
      IN (IsDirectCall(call) /\ Truthy(B) /\ Declares(B, call[5]))
           => SiteFullName(s) \in Callers(B \o "." \o call[5])

\* C1 (amended): the same, provided m is not itself an identifier that B's binding map
\* binds; then the call text this.id.m of A.x puts A.x under B.m.
C1_DirectResolution ==
  AfterResolve =>
    \A s \in MethodSites : \A k \in DOMAIN SiteMethod(s).calls :
      LET call == SiteMethod(s).calls[k]
          B == Binding(SiteClass(s).name, call[3])
      IN (IsDirectCall(call) /\ Truthy(B) /\ Declares(B, call[5])
            /\ ~Truthy(Binding(B, call[5])))
           => SiteFullName(s) \in Callers(B \o "." \o call[5])

C1_Witness ==
  /\ AfterResolve
  /\ \E s \in MethodSites : \E k \in DOMAIN SiteMethod(s).calls :
       LET call == SiteMethod(s).calls[k]
           B == Binding(SiteClass(s).name, call[3])
       IN /\ IsDirectCall(call) /\ Truthy(B) /\ Declares(B, call[5])
          /\ ~Truthy(Binding(B, call[5]))
          /\ SiteFullName(s) \in Callers(B \o "." \o call[5])

----------------------------------------------------------------------------
(* C2 *)

\* the call text is exactly this.<id>.<nested>.<m>
IsNestedCall(call) == Len(call) = 7 /\ NestedMatches(call)

\* key is the raw text or the resolution of a call text of method s other than call
OtherCallYields(s, call, key) ==
  \E t \in MethodSites : \E q \in DOMAIN SiteMethod(t).calls :
    /\ SiteFullName(t) = SiteFullName(s)
    /\ SiteMethod(t).calls[q] # call
    /\ \/ Text(SiteMethod(t).calls[q]) = key
       \/ ResolveMethodCall(SiteClass(t).name, SiteMethod(t).calls[q], injectionMap,
                            nestedInjectionMap, classMethodsMap) = key

\* C2 as stated: A binds _b to B, B binds c to C, C declares m: the call text
\* this._b.c.m in A.x puts A.x under C.m, and puts it under neither B.m nor B.c.
C2_TransitiveResolution_AsStated ==
  AfterResolve =>
    \A s \in MethodSites : \A k \in DOMAIN SiteMethod(s).calls :
      LET call == SiteMethod(s).calls[k]
          B == Binding(SiteClass(s).name, call[3])
          C == Binding(B, call[5])
      IN (IsNestedCall(call) /\ Truthy(B) /\ Truthy(C) /\ Declares(C, call[7]))
           => /\ SiteFullName(s) \in Callers(C \o "." \o call[7])
              /\ \A key \in {B \o "." \o call[7], B \o "." \o call[5]} :
                   SiteFullName(s) \in Callers(key) => OtherCallYields(s, call, key)

\* C2 (amended): the call text this._b.c.m in A.x puts A.x under C.m; when C is a class
\* other than B, that call text puts A.x under neither B.m nor B.c.
C2_TransitiveResolution ==
  AfterResolve =>
    \A s \in MethodSites : \A k \in DOMAIN SiteMethod(s).calls :
      LET call == SiteMethod(s).calls[k]
          B == Binding(SiteClass(s).name, call[3])
          C == Binding(B, call[5])
      IN (IsNestedCall(call) /\ Truthy(B) /\ Truthy(C) /\ Declares(C, call[7]))
           => /\ SiteFullName(s) \in Callers(C \o "." \o call[7])
              /\ C # B =>
                   \A key \in {B \o "." \o call[7], B \o "." \o call[5]} :
                     SiteFullName(s) \in Callers(key) => OtherCallYields(s, call, key)

C2_Witness ==
  /\ AfterResolve
  /\ \E s \in MethodSites : \E k \in DOMAIN SiteMethod(s).calls :
       LET call == SiteMethod(s).calls[k]
           B == Binding(SiteClass(s).name, call[3])
           C == Binding(B, call[5])
       IN /\ IsNestedCall(call) /\ Truthy(B) /\ Truthy(C) /\ Declares(C, call[7])
          /\ C # B
          /\ SiteFullName(s) \in Callers(C \o "." \o call[7])
          /\ SiteFullName(s) \notin Callers(B \o "." \o call[7])
          /\ SiteFullName(s) \notin Callers(B \o "." \o call[5])

----------------------------------------------------------------------------
(* C3, C4, C5 *)

\* deadCode reports the method at site s, with the reason given for methods
MethodReported(s) ==
  \E d \in DOMAIN deadCode :
    /\ deadCode[d].type = "method"
    /\ deadCode[d].fullName = SiteFullName(s)
    /\ deadCode[d].name = SiteMethod(s).name
    /\ deadCode[d].file = Text(fileInfos[s[1]].relativePath)
    /\ deadCode[d].reason = "No callers found"

\* the method is marked private and its name carries the "_" prefix
PrivateByConvention(method) ==
  "private" \in method.modifiers /\ StartsWithUnderscore(method.name)

\* C3 as stated: every method with no caller in the reverse graph and a name outside
\* the lifecycle allow-list is in deadCode with reason "No callers found".
C3_DeadMethodsReported_AsStated ==
  AfterDeadCode =>
    \A s \in MethodSites :
      (Callers(SiteFullName(s)) = {} /\ SiteMethod(s).name \notin lifecycleHooks)
        => MethodReported(s)

\* C3 (amended): every method with no caller in the reverse graph, a name outside the
\* lifecycle allow-list, and that is not both private and "_"-prefixed, is in deadCode
\* with reason "No callers found".
C3_DeadMethodsReported ==
  AfterDeadCode =>
    \A s \in MethodSites :
      (/\ Callers(SiteFullName(s)) = {}
       /\ SiteMethod(s).name \notin lifecycleHooks
       /\ ~PrivateByConvention(SiteMethod(s)))
        => MethodReported(s)

C3_Witness ==
  /\ AfterDeadCode
  /\ \E s \in MethodSites :
       /\ Callers(SiteFullName(s)) = {}
       /\ SiteMethod(s).name \notin lifecycleHooks
       /\ "private" \in SiteMethod(s).modifiers
       /\ ~StartsWithUnderscore(SiteMethod(s).name)
       /\ MethodReported(s)

\* C4: a method that has a caller in the reverse graph, or a lifecycle name, or that is
\* private with a "_"-prefixed name, is never in deadCode.
C4_NoExemptMethodReported ==
  AfterDeadCode =>
    \A s \in MethodSites :
      (\/ Callers(SiteFullName(s)) # {}
       \/ SiteMethod(s).name \in lifecycleHooks
       \/ PrivateByConvention(SiteMethod(s)))
        => ~\E d \in DOMAIN deadCode :
              /\ deadCode[d].type = "method"
              /\ deadCode[d].fullName = SiteFullName(s)
              /\ deadCode[d].file = Text(fileInfos[s[1]].relativePath)

\* a report that lists a dead method while a called method, a lifecycle hook and a
\* private "_" method, all of the same class, stay out of it
C4_Witness ==
  /\ AfterDeadCode
  /\ \E s, t, u, v \in MethodSites :
       /\ s[1] = t[1] /\ s[1] = u[1] /\ s[1] = v[1]
       /\ s[2] = t[2] /\ s[2] = u[2] /\ s[2] = v[2]
       /\ MethodReported(s)
       /\ Callers(SiteFullName(t)) # {} /\ ~MethodReported(t)
       /\ SiteMethod(u).name \in lifecycleHooks /\ Callers(SiteFullName(u)) = {}
       /\ ~MethodReported(u)
       /\ PrivateByConvention(SiteMethod(v)) /\ Callers(SiteFullName(v)) = {}
       /\ ~MethodReported(v)

\* deadCode reports the free function at site s
FunctionReported(s) ==
  \E d \in DOMAIN deadCode :
    /\ deadCode[d].type = "function"
    /\ deadCode[d].fullName = SiteFunction(s).name
    /\ deadCode[d].file = Text(fileInfos[s[1]].relativePath)

\* C5: a free function with no caller in the reverse graph is in deadCode exactly when
\* it is not exported.
C5_ExportExemption ==
  AfterDeadCode =>
    \A s \in FunctionSites :
      Callers(SiteFunction(s).name) = {}
        => (FunctionReported(s) <=> ~SiteFunction(s).exported)

\* two functions without callers in one report: the exported one absent, the other listed
C5_Witness ==
  /\ AfterDeadCode
  /\ \E s, t \in FunctionSites :
       /\ Callers(SiteFunction(s).name) = {} /\ SiteFunction(s).exported
       /\ ~FunctionReported(s)
       /\ Callers(SiteFunction(t).name) = {} /\ ~SiteFunction(t).exported
       /\ FunctionReported(t)

----------------------------------------------------------------------------
(* C6 *)

\* the specifier, read from the importing file's directory, names the target file:
\* as written, with a probed extension or index file added, or with ".js" written for
\* a TypeScript source
Designates(fromPath, module, targetPath) ==
  LET base == WalkParts(Split(module), 1, UpToLastSlash(fromPath))
      stem == SubSeq(base, 1, Len(base) - 1)
  IN \/ targetPath = base
     \/ \E e \in DOMAIN extensions : targetPath = base \o extensions[e]
     \/ EndsWith(base, <<".js">>) /\ targetPath \in {stem \o <<".ts">>, stem \o <<".ts", "x">>}

RelativeImports(file) ==
  {i \in DOMAIN file.imports : StartsWithDot(file.imports[i])}

\* the project is two files x and y, each relatively importing the other and nothing else
MutualImportPair ==
  /\ Len(project) = 2
  /\ \A f \in {1, 2} :
       /\ RelativeImports(project[f]) # {}
       /\ \A i \in RelativeImports(project[f]) :
            Designates(project[f].relativePath, project[f].imports[i],
                       project[3 - f].relativePath)

\* C6: two files that relatively import each other, and nothing else, give exactly one
\* circular-dependency entry, in either scan order.
C6_CircularSymmetry ==
  (pc = "return" /\ MutualImportPair) => Len(circularDependencies) = 1

----------------------------------------------------------------------------
(* C7 *)

ClassNames == {cls.name : cls \in Range(AllClasses(project))}

\* no two scanned classes share a name
UniqueClassNames == Cardinality(ClassNames) = Len(AllClasses(project))

ClassNamed(name) ==
  CHOOSE cls \in Range(AllClasses(project)) : cls.name = name

OwnMethodNames(cls) == {cls.methods[j].name : j \in DOMAIN cls.methods}

\* the scanned classes n steps up the extends chain of a class name, for n >= 1
RECURSIVE SuperclassesWithin(_, _)
SuperclassesWithin(name, n) ==
  IF n = 0 \/ name \notin ClassNames \/ ClassNamed(name).extends \notin ClassNames THEN {}
  ELSE {ClassNamed(name).extends} \cup SuperclassesWithin(ClassNamed(name).extends, n - 1)

\* all transitive superclasses: no chain without repetition is longer than the class count
TransitiveSuperclasses(name) == SuperclassesWithin(name, Cardinality(ClassNames))

AncestorMethods(name) ==
  UNION {OwnMethodNames(ClassNamed(p)) : p \in TransitiveSuperclasses(name)}

----------------------------------------------------------------------------
(* C8 *)

\* C8: two scan() calls over the unchanged file set return the same reverse graph
\* (the calledBy of every method) and the same derived analyses.
C8_Determinism ==
  Len(outputs) = 2 =>
    /\ outputs[1].files = outputs[2].files
    /\ outputs[1].deadCode = outputs[2].deadCode
    /\ outputs[1].inheritance = outputs[2].inheritance
    /\ outputs[1].circularDependencies = outputs[2].circularDependencies

----------------------------------------------------------------------------
(* C10 *)

ReverseEdges == {e \in (DOMAIN reverseCallGraph) \X
                         UNION {reverseCallGraph[k] : k \in DOMAIN reverseCallGraph} :
                   e[2] \in reverseCallGraph[e[1]]}

\* form 1: this.<id>.<method>, <id> bound by the caller's class to T
ByForm1(className, call, key) ==
  /\ SimpleMatches(call)
  /\ Truthy(Binding(className, call[3]))
  /\ key = Binding(className, call[3]) \o "." \o call[5]

\* form 2: this.<id>.<nested>.<method>, <id> bound to T and <nested> bound by T to U
ByForm2(className, call, key) ==
  /\ NestedMatches(call)
  /\ Truthy(Binding(className, call[3]))
  /\ Truthy(Binding(Binding(className, call[3]), call[5]))
  /\ key = Binding(Binding(className, call[3]), call[5]) \o "." \o call[7]

\* form 3: inject(Type).<method> with Type a known class
ByForm3(call, key) ==
  \E i \in DOMAIN call :
    /\ InjectCallAt(call, i)
    /\ call[i + 2] \in ClassNames
    /\ key = call[i + 2] \o "." \o call[i + 5]

\* form 4: <id>.<method> in a free function, <id> bound to T by the local binding map
\* kept under the function's name
ByForm4(fn, call, key) ==
  /\ LocalVarMatches(call)
  /\ MapHas(localInjectionMap, fn.name)
  /\ Truthy(MapGet(localInjectionMap[fn.name], call[1]))
  /\ key = MapGet(localInjectionMap[fn.name], call[1]) \o "." \o call[3]

\* the edge's caller is a method of a scanned file and a resolution form gives its key
ResolvedFromMethod(e) ==
  \E s \in MethodSites : \E k \in DOMAIN SiteMethod(s).calls :
    /\ e[2] = SiteFullName(s)
    /\ \/ ByForm1(SiteClass(s).name, SiteMethod(s).calls[k], e[1])
       \/ ByForm2(SiteClass(s).name, SiteMethod(s).calls[k], e[1])
       \/ ByForm3(SiteMethod(s).calls[k], e[1])

\* the edge's caller is a free function of a scanned file and form 3 or 4 gives its key
ResolvedFromFunction(e) ==
  \E f \in DOMAIN fileInfos : \E j \in DOMAIN project[f].functions :
    \E k \in DOMAIN project[f].functions[j].calls :
      /\ e[2] = "function:" \o project[f].functions[j].name
      /\ \/ ByForm3(project[f].functions[j].calls[k], e[1])
         \/ ByForm4(project[f].functions[j], project[f].functions[j].calls[k], e[1])

\* the edge comes from a binding expression of a component template of a scanned file
FromTemplate(e) ==
  \E f \in DOMAIN fileInfos : \E c, d \in DOMAIN project[f].classes :
    \E b \in DOMAIN project[f].classes[c].templateBindings :
      /\ framework = "angular"
      /\ "@Component" \in Range(project[f].classes[c].decorators)
      /\ e[2] = "template:" \o Text(project[f].relativePath)
      /\ Truthy(TemplateMethodMatch(project[f].classes[c].templateBindings[b]))
      /\ e[1] = project[f].classes[d].name \o "."
                  \o TemplateMethodMatch(project[f].classes[c].templateBindings[b])

\* the edge is a raw call text of a class method, keyed by the text itself
RawFromMethod(e) ==
  \E s \in MethodSites : \E k \in DOMAIN SiteMethod(s).calls :
    e[2] = SiteFullName(s) /\ e[1] = Text(SiteMethod(s).calls[k])

C10_TemplateWitness ==
  /\ FirstScan /\ AfterResolve
  /\ \E e \in ReverseEdges : FromTemplate(e)
  /\ \E e \in ReverseEdges : ResolvedFromMethod(e)

----------------------------------------------------------------------------
(* C11 *)

\* the call texts the report's callGraph lists under a caller identity
ForwardCalls(caller) == IF MapHas(callGraph, caller) THEN callGraph[caller] ELSE {}

\* C11: in the report scan() returns, every call text extracted from the body of a
\* method is listed in callGraph under Class.method and every call text of a free
\* function under the function's name, also when two files declare a class or a
\* function of the same name.
C11_ForwardGraphExhaustive ==
  pc = "return" =>
    /\ \A s \in MethodSites : \A k \in DOMAIN SiteMethod(s).calls :
         Text(SiteMethod(s).calls[k]) \in ForwardCalls(SiteFullName(s))
    /\ \A s \in FunctionSites : \A k \in DOMAIN SiteFunction(s).calls :
         Text(SiteFunction(s).calls[k]) \in ForwardCalls(SiteFunction(s).name)

----------------------------------------------------------------------------
(* C12 *)

\* scan() is between its entry and the back-fill
BeforeBackFill == pc \in {"collectClassInfo", "scanFile", "buildCallGraph"}

\* the back-fill of the current scan() has run and scan() has not returned
AfterBackFill ==
  pc \in {"detectDeadCode", "analyzeInheritance", "detectCircularDependencies",
          "generateSummary", "analyzeInterfaceImplementations", "buildCallChains", "return"}

\* every method of the file infos has exactly the callers the reverse graph holds
\* under Class.method
CalledByIsReverseGraph(infos) ==
  \A f \in DOMAIN infos : \A c \in DOMAIN infos[f].classes :
    \A j \in DOMAIN infos[f].classes[c].methods :
      infos[f].classes[c].methods[j].calledBy
        = Callers(infos[f].classes[c].name \o "." \o infos[f].classes[c].methods[j].name)

C12_States ==
  /\ BeforeBackFill => \A s \in MethodSites : SiteMethod(s).calledBy = {}
  /\ AfterBackFill => CalledByIsReverseGraph(fileInfos)
  /\ (pc = "idle" /\ outputs # <<>>) => CalledByIsReverseGraph(outputs[Len(outputs)].files)

C12_Steps ==
  /\ (pc = "buildCallGraph" /\ pc' # pc) =>
       /\ Len(fileInfos) = Len(project)
       /\ reverseCallGraph = resolveCrossFileCalls(fileInfos, reverseCallGraph, injectionMap,
                                nestedInjectionMap, localInjectionMap, classMethodsMap)
  /\ AfterBackFill => reverseCallGraph' = reverseCallGraph

\* C12: calledBy is empty until the back-fill; from the back-fill on, and in the report,
\* every method's calledBy is exactly the set of callers the reverse graph holds under
\* Class.method; the back-fill runs when every file is scanned and cross-file
\* resolution has added its edges, and no step after it changes the reverse graph.
C12_CalledByBackFill == [](C12_States) /\ [][C12_Steps]_vars

\* a report in which a method is called from its template and from another class
C12_Witness ==
  /\ pc = "idle" /\ outputs # <<>>
  /\ \E f \in DOMAIN fileInfos : \E c \in DOMAIN fileInfos[f].classes :
       \E j \in DOMAIN fileInfos[f].classes[c].methods :
         LET calledBy == outputs[Len(outputs)].files[f].classes[c].methods[j].calledBy
         IN /\ "Host.open" \in calledBy
            /\ \E caller \in calledBy : IsTemplateIdentity(caller, fileInfos)
            /\ calledBy = Callers(fileInfos[f].classes[c].name \o "."
                                    \o fileInfos[f].classes[c].methods[j].name)

----------------------------------------------------------------------------
(* C13 *)

\* the callee identities the forms 1, 2 and 3 give a call text of a method of className
FormResults(className, call) ==
  <<SimpleResolution(className, call, injectionMap, nestedInjectionMap),
    NestedResolution(className, call, injectionMap, nestedInjectionMap),
    InjectResolution(call, classMethodsMap)>>

\* the result of the lowest-numbered form that resolves, Undef when none does
FirstMatch(className, call) ==
  LET r == FormResults(className, call)
  IN IF r[1] # Undef THEN r[1] ELSE IF r[2] # Undef THEN r[2] ELSE r[3]

\* key is the raw text, or the first-match resolution, of a call text of method s
\* other than call
OtherCallGives(s, call, key) ==
  \E t \in MethodSites : \E q \in DOMAIN SiteMethod(t).calls :
    /\ SiteFullName(t) = SiteFullName(s)
    /\ SiteMethod(t).calls[q] # call
    /\ \/ Text(SiteMethod(t).calls[q]) = key
       \/ FirstMatch(SiteClass(t).name, SiteMethod(t).calls[q]) = key

\* C13: a call text of a class method that several of the forms 1, 2, 3 resolve puts
\* its caller under the result of the lowest-numbered of them, and under the result of
\* no other form (unless another call text of the same method gives that key).
C13_FirstMatchWins ==
  (FirstScan /\ AfterResolve) =>
    \A s \in MethodSites : \A k \in DOMAIN SiteMethod(s).calls :
      LET call == SiteMethod(s).calls[k]
          r == FormResults(SiteClass(s).name, call)
          first == FirstMatch(SiteClass(s).name, call)
      IN /\ Truthy(first) => SiteFullName(s) \in Callers(first)
         /\ \A i \in 1..3 :
              (Truthy(r[i]) /\ r[i] # first /\ SiteFullName(s) \in Callers(r[i]))
                => OtherCallGives(s, call, r[i])

----------------------------------------------------------------------------
(* C14 *)

\* collectClassInfo of the current scan() has run
AfterCollect == pc \notin {"idle", "collectClassInfo"}

\* C14: once collectClassInfo has run, every constructor parameter p of a class A whose
\* declared type T names a class of the scanned project, or follows the service naming
\* convention, is bound p -> T in A's binding map, wherever T's file comes in the
\* visiting order.
C14_CtorBindingOrderIndependent ==
  AfterCollect =>
    \A cls \in Range(AllClasses(project)) : \A i \in DOMAIN cls.ctorParams :
      LET param == cls.ctorParams[i]
      IN (param.type # Undef /\ (param.type \in ClassNames \/ EndsWithService(param.type)))
           => Binding(cls.name, param.name) = param.type

----------------------------------------------------------------------------
(* C15 *)

\* the caller identity of the templates of file f
TemplateCaller(f) == "template:" \o Text(project[f].relativePath)

\* the component classes with their call-like template bindings: <<file, class, name>>
TemplateCalls ==
  UNION {UNION {
    {<<f, c, TemplateMethodMatch(project[f].classes[c].templateBindings[b])>> :
       b \in {k \in DOMAIN project[f].classes[c].templateBindings :
                TemplateMethodMatch(project[f].classes[c].templateBindings[k]) # Undef}}
    : c \in {q \in DOMAIN project[f].classes :
               "@Component" \in Range(project[f].classes[q].decorators)}}
    : f \in DOMAIN project}

\* C15: with the angular framework, every call-like binding name( of a component's
\* template puts caller template:<file> under <ComponentClass>.name, whichever position
\* the component class has in its file, and a method of the component that its own
\* template invokes is not reported as dead code.
C15_TemplateEdgesNameComponent ==
  (framework = "angular" /\ AfterResolve) =>
    \A t \in TemplateCalls :
      /\ TemplateCaller(t[1]) \in Callers(project[t[1]].classes[t[2]].name \o "." \o t[3])
      /\ AfterDeadCode =>
           \A s \in MethodSites :
             (s[1] = t[1] /\ s[2] = t[2] /\ SiteMethod(s).name = t[3]) => ~MethodReported(s)

----------------------------------------------------------------------------
(* C16 *)

\* the call text is exactly <id>.<method> with <id> other than this
IsBareCall(call) == Len(call) = 3 /\ LocalVarMatches(call) /\ call[1] # "this"

\* form 4 through the function's own declarations: <id> is bound to T by a local
\* variable of fn itself
ByOwnBinding(fn, call, key) ==
  LET own == extractLocalInjections(fn.locals, 1, EmptyMap)
  IN /\ LocalVarMatches(call)
     /\ Truthy(MapGet(own, call[1]))
     /\ key = MapGet(own, call[1]) \o "." \o call[3]

\* the edge's caller is a free function f and its key comes from a call text of a
\* function named f, by the inline inject form or through that function's own bindings
ScopedToFunction(e) ==
  \E f \in DOMAIN project : \E j \in DOMAIN project[f].functions :
    \E k \in DOMAIN project[f].functions[j].calls :
      /\ e[2] = "function:" \o project[f].functions[j].name
      /\ \/ ByForm3(project[f].functions[j].calls[k], e[1])
         \/ ByOwnBinding(project[f].functions[j], project[f].functions[j].calls[k], e[1])

\* the callers that are free functions
FunctionCallers == {"function:" \o SiteFunction(s).name : s \in FunctionSites}

\* C16: every reverse edge whose caller is function:f comes from a call text of f that
\* the inline inject form resolves or that f's own local bindings resolve, and a bare
\* call text <id>.<method> of a class method puts its caller under no key T.<method>
\* other than the text itself (unless another call text of the method gives that key).
C16_FunctionScopedResolution ==
  AfterResolve =>
    /\ \A e \in ReverseEdges : e[2] \in FunctionCallers => ScopedToFunction(e)
    /\ \A s \in MethodSites : \A k \in DOMAIN SiteMethod(s).calls :
         LET call == SiteMethod(s).calls[k]
         IN IsBareCall(call) =>
              \A T \in ClassNames :
                LET key == T \o "." \o call[3]
                IN (key # Text(call) /\ SiteFullName(s) \in Callers(key))
                     => OtherCallYields(s, call, key)

----------------------------------------------------------------------------
(* C17 *)

\* detectCircularDependencies of the current scan() has run
AfterCycles ==
  pc \in {"generateSummary", "analyzeInterfaceImplementations", "buildCallChains", "return"}

\* the specifier, walked from the importing file's directory, names targetPath as it
\* is or once one of the probed extensions or index files is appended
ProbedTarget(fromPath, module, targetPath) ==
  LET base == WalkParts(Split(module), 1, UpToLastSlash(fromPath))
  IN \/ targetPath = base
     \/ \E e \in DOMAIN extensions : targetPath = base \o extensions[e]

\* the import graph detectCircularDependencies builds from the file infos
ImportGraphOfScan == ImportGraph(project, fileInfos, 1, EmptyMap)

\* C17: in the import graph, file f has an edge to the project-relative path of every
\* scanned file g that one of its relative imports designates through a probed
\* extension or index file, and it has no other edge: non-relative imports and imports
\* that designate no scanned file give none.
C17_ImportGraphEdges ==
  AfterCycles =>
    \A f \in DOMAIN fileInfos :
      LET deps == Range(ImportGraphOfScan[fileInfos[f].relativePath])
      IN /\ \A i \in RelativeImports(project[f]) : \A g \in DOMAIN project :
              ProbedTarget(project[f].relativePath, project[f].imports[i],
                           project[g].relativePath)
                => project[g].relativePath \in deps
         /\ \A d \in deps :
              \E i \in RelativeImports(project[f]) : \E g \in DOMAIN project :
                /\ ProbedTarget(project[f].relativePath, project[f].imports[i],
                                project[g].relativePath)
                /\ d = project[g].relativePath

----------------------------------------------------------------------------
(* C18 *)

\* a reported cycle without its closing repetition of the first file
CycleCore(cycle) == SubSeq(cycle, 1, Len(cycle) - 1)

\* b lists the files of a in the same cyclic order, from the same or another start
IsRotation(a, b) ==
  /\ Len(a) = Len(b)
  /\ \E k \in 0..(Len(a) - 2) :
       \A i \in 1..(Len(a) - 1) :
         CycleCore(b)[i] = CycleCore(a)[((i - 1 + k) % (Len(a) - 1)) + 1]

\* C18: the circularDependencies report never holds two entries that are rotations of
\* the same cycle.
C18_NoRotatedCycles ==
  \A i, j \in DOMAIN circularDependencies :
    i < j => ~IsRotation(circularDependencies[i], circularDependencies[j])

\* a report with a two-file cycle and a three-file cycle through the same files
C18_Witness ==
  /\ pc = "return"
  /\ \E i, j \in DOMAIN circularDependencies :
       /\ Len(circularDependencies[i]) = 3
       /\ Len(circularDependencies[j]) = 4
       /\ Range(circularDependencies[i]) \subseteq Range(circularDependencies[j])

----------------------------------------------------------------------------
(* C19 *)

\* generateSummary of the current scan() has run
AfterSummary == pc \in {"analyzeInterfaceImplementations", "buildCallChains", "return"}

\* the four rankings of the summary
Rankings ==
  <<summary.mostCalledMethods, summary.mostUsedServices, summary.largestClasses,
    summary.filesByImports>>

\* C19: no entry of mostCalledMethods, mostUsedServices, largestClasses or
\* filesByImports has a count of zero.
C19_NoZeroCountEntries ==
  AfterSummary =>
    \A r \in DOMAIN Rankings : \A i \in DOMAIN Rankings[r] : Rankings[r][i].count # 0

----------------------------------------------------------------------------
(* C20 *)

\* the candidates of the four rankings in their input order: every method, every service
\* class, every class and every file, with its count
Candidates ==
  <<MethodCallCounts(fileInfos), ServiceUsageCounts(fileInfos, injectionMap),
    ClassSizeEntries(fileInfos), FileImportEntries(fileInfos)>>

\* the place of a listed entry among the candidates
CandidateIndex(cands, e) == CHOOSE i \in DOMAIN cands : cands[i] = e

\* ranking lists candidates, at most TopCount of them, in non-increasing order of count,
\* entries of equal count in their candidate order, and leaves out no candidate with a
\* larger count than a listed one; with fewer than TopCount entries it leaves out only
\* candidates of count zero
IsTopRanking(ranking, cands) ==
  /\ Len(ranking) <= TopCount
  /\ \A i \in DOMAIN ranking : ranking[i] \in Range(cands)
  /\ \A i, j \in DOMAIN ranking :
       i < j => /\ ranking[i].count >= ranking[j].count
                /\ ranking[i].count = ranking[j].count
                     => CandidateIndex(cands, ranking[i]) < CandidateIndex(cands, ranking[j])
  /\ \A c \in Range(cands) \ Range(ranking) :
       /\ \A i \in DOMAIN ranking : c.count <= ranking[i].count
       /\ Len(ranking) < TopCount => c.count = 0

\* C20: each of the four rankings has at most 10 entries, sorted in non-increasing order
\* of count, equal counts in input order, and holds the highest-count candidates.
C20_TopTenRankings ==
  AfterSummary => \A r \in DOMAIN Rankings : IsTopRanking(Rankings[r], Candidates[r])

\* every ranking is full, leaves out a candidate whose count equals that of its last
\* entry, and lists entries of equal count
C20_Witness ==
  /\ AfterSummary
  /\ \A r \in DOMAIN Rankings :
       /\ Len(Rankings[r]) = TopCount
       /\ Rankings[r][1].count > Rankings[r][TopCount].count
       /\ Rankings[r][TopCount - 1].count = Rankings[r][TopCount].count
       /\ \E c \in Range(Candidates[r]) \ Range(Rankings[r]) :
            c.count = Rankings[r][TopCount].count /\ c.count > 0

----------------------------------------------------------------------------
(* C21 *)

\* analyzeInterfaceImplementations of the current scan() has run
AfterInterfaces == pc \in {"buildCallChains", "return"}

\* the interface name of an implements text: what stands before its type arguments
StripGenerics(iface) ==
  LET opens == {i \in DOMAIN iface : iface[i] = "<"}
  IN IF opens = {} THEN Text(iface) ELSE Text(SubSeq(iface, 1, Min(opens) - 1))

\* the names of the scanned classes that declare the interface
Implementers(name) ==
  {cls.name : cls \in {c \in Range(AllClasses(project)) :
                        \E k \in DOMAIN c.implements : StripGenerics(c.implements[k]) = name}}

\* the interface names the scanned classes declare
ImplementedNames ==
  UNION {{StripGenerics(cls.implements[k]) : k \in DOMAIN cls.implements} :
           cls \in Range(AllClasses(project))}

\* C21: interfaceImplementations has exactly one entry for every interface name that a
\* scanned class declares (type arguments stripped) and no other entry; an entry lists
\* exactly the names of the classes declaring the interface, each once; the entries
\* come in non-increasing order of their number of implementers.
C21_InterfaceGrouping ==
  AfterInterfaces =>
    /\ \A n \in ImplementedNames :
         Cardinality({i \in DOMAIN interfaceImplementations :
                        interfaceImplementations[i].interfaceName = n}) = 1
    /\ \A i \in DOMAIN interfaceImplementations :
         LET e == interfaceImplementations[i]
         IN /\ e.interfaceName \in ImplementedNames
            /\ Range(e.implementedBy) = Implementers(e.interfaceName)
            /\ Len(e.implementedBy) = Cardinality(Range(e.implementedBy))
    /\ \A i, j \in DOMAIN interfaceImplementations :
         i < j => Len(interfaceImplementations[i].implementedBy)
                    >= Len(interfaceImplementations[j].implementedBy)

\* a report with a generic interface that is declared with two argument lists by one
\* class and also by another class, ahead of an interface with fewer implementers
C21_Witness ==
  /\ pc = "return"
  /\ Len(interfaceImplementations) >= 2
  /\ Len(interfaceImplementations[1].implementedBy) >= 2
  /\ Len(interfaceImplementations[1].implementedBy)
       > Len(interfaceImplementations[Len(interfaceImplementations)].implementedBy)
  /\ \E cls \in Range(AllClasses(project)) : \E k, l \in DOMAIN cls.implements :
       /\ k # l
       /\ cls.implements[k] # cls.implements[l]
       /\ StripGenerics(cls.implements[k]) = interfaceImplementations[1].interfaceName
       /\ StripGenerics(cls.implements[l]) = interfaceImplementations[1].interfaceName

----------------------------------------------------------------------------
(* C22 *)

\* the methods of the scanned files that were given a call chain list
ChainSites == {s \in MethodSites : SiteMethod(s).callChain # {}}

\* C22: in the report every method's callChain holds at most 5 chains; every chain has
\* between 2 and maxDepth + 1 = 4 elements, ends with the method itself, each element
\* is a reverse-graph caller of the element after it, and a template identity stands
\* only in first place.
C22_CallChainShape ==
  pc = "return" =>
    \A s \in ChainSites :
      /\ Cardinality(SiteMethod(s).callChain) <= ChainLimit
      /\ \A chain \in SiteMethod(s).callChain :
           /\ Len(chain) >= 2
           /\ Len(chain) <= CallChainDepth + 1
           /\ chain[Len(chain)] = SiteFullName(s)
           /\ \A i \in 1..(Len(chain) - 1) : chain[i] \in Callers(chain[i + 1])
           /\ \A i \in 2..Len(chain) : ~IsTemplateIdentity(chain[i], fileInfos)

\* a method that kept exactly 5 chains, with more than 5 found, among them a chain of
\* 4 elements and a chain that starts at a template
C22_Witness ==
  /\ pc = "return"
  /\ \E s \in ChainSites :
       /\ Cardinality(SiteMethod(s).callChain) = ChainLimit
       /\ Cardinality(getCallChain(SiteFullName(s), CallChainDepth, {}, reverseCallGraph,
                                   fileInfos)) > ChainLimit
       /\ \E chain \in SiteMethod(s).callChain : Len(chain) = CallChainDepth + 1
       /\ \E chain \in SiteMethod(s).callChain : IsTemplateIdentity(chain[1], fileInfos)

----------------------------------------------------------------------------
(* C23: cyclic structures *)

\* the caches analyzeInheritance builds from the scanned classes
CachesOfScan ==
  ClassCaches(AllClasses(fileInfos), 1, [methods |-> EmptyMap, extends |-> EmptyMap])

\* every ancestor lookup ends by its own tests: it makes at most one call per scanned
\* class and one more
LookupsEnd ==
  pc = "analyzeInheritance" =>
    LET classes == AllClasses(fileInfos)
    IN \A c \in DOMAIN classes :
         AncestorLookupCalls(classes[c].name, {}, CachesOfScan, Len(classes) + 2)
           <= Len(classes) + 1

\* every scan() that was entered hands its report to the caller
ScanReturns ==
  \A n \in 0..(MaxScans - 1) :
    (pc = "collectClassInfo" /\ Len(outputs) = n) ~> (pc = "idle" /\ Len(outputs) = n + 1)

\* C23: for every project, those with extension cycles, mutually recursive methods and
\* import cycles included, the ancestor lookup ends and every scan that was entered
\* produces its report
C23_CyclesNeverFatal == [](LookupsEnd) /\ ScanReturns

\* a report on a project whose extends clauses, calls and imports are all cyclic
C23_Witness ==
  /\ project \in KnotProjects
  /\ pc = "idle"
  /\ Len(outputs) = MaxScans
  /\ outputs[1].circularDependencies # <<>>
  /\ outputs[1].inheritance # <<>>
  /\ \E s \in MethodSites : \E chain \in SiteMethod(s).callChain :
        chain[1] = SiteFullName(s) /\ Len(chain) > 1

----------------------------------------------------------------------------
(* C24: the model during the analyzer passes *)

\* scan() is about to run one of the analyzers of lines 69-75
AnalyzerPass ==
  pc \in {"detectDeadCode", "analyzeInheritance", "detectCircularDependencies",
          "generateSummary", "analyzeInterfaceImplementations", "buildCallChains"}

\* C24: after the back-fill of calledBy no analyzer pass changes a FileInfo, ClassInfo
\* or MethodInfo, the forward graph, the reverse graph or a binding map.
C24_ModelFrozen ==
  [][AnalyzerPass =>
       /\ fileInfos' = fileInfos
       /\ callGraph' = callGraph
       /\ reverseCallGraph' = reverseCallGraph
       /\ classMethodsMap' = classMethodsMap
       /\ injectionMap' = injectionMap
       /\ nestedInjectionMap' = nestedInjectionMap
       /\ localInjectionMap' = localInjectionMap]_vars

----------------------------------------------------------------------------
(* C25: the model at the start of a scan *)

\* scan() was entered and no pass has run yet
ScanEntered == pc = "collectClassInfo"

\* C25: every scan() starts from empty forward and reverse graphs and empty
\* class-method and binding maps, and the report of a later scan() is the one a fresh
\* scanner gives for the same files (here: the report of the first scan()).
C25_FreshModelPerScan ==
  /\ ScanEntered =>
       /\ callGraph = EmptyMap
       /\ reverseCallGraph = EmptyMap
       /\ classMethodsMap = EmptyMap
       /\ injectionMap = EmptyMap
       /\ nestedInjectionMap = EmptyMap
       /\ localInjectionMap = EmptyMap
  /\ \A n \in 2..Len(outputs) : outputs[n] = outputs[1]

----------------------------------------------------------------------------
(* C26: the reported cycles *)

\* the project-relative paths of the scanned files
ScannedPaths == {fileInfos[f].relativePath : f \in DOMAIN fileInfos}

\* u -> v is an edge of the import graph
ImportEdge(u, v) == MapHas(ImportGraphOfScan, u) /\ v \in Range(ImportGraphOfScan[u])

\* C26: every reported cycle starts and ends with the same file, each of its files
\* imports the next one, all its files are scanned files, and no file but the repeated
\* endpoint occurs twice in it.
C26_CyclesSound ==
  AfterCycles =>
    \A i \in DOMAIN circularDependencies :
      LET cycle == circularDependencies[i]
      IN /\ Len(cycle) >= 2
         /\ cycle[1] = cycle[Len(cycle)]
         /\ \A k \in 1..(Len(cycle) - 1) : ImportEdge(cycle[k], cycle[k + 1])
         /\ Range(cycle) \subseteq ScannedPaths
         /\ \A k, l \in 1..(Len(cycle) - 1) : k # l => cycle[k] # cycle[l]

\* a report with a cycle that the traversal entered from a file outside it, and with a
\* self-import
C26_Witness ==
  /\ pc = "return"
  /\ \E i \in DOMAIN circularDependencies :
       /\ Len(circularDependencies[i]) = 3
       /\ fileInfos[1].relativePath \notin Range(circularDependencies[i])
       /\ ImportEdge(fileInfos[1].relativePath, circularDependencies[i][1])
  /\ \E i \in DOMAIN circularDependencies : Len(circularDependencies[i]) = 2

----------------------------------------------------------------------------
(* C27: existence of cycles *)

\* the files with an import edge to a scanned file
Importers == {u \in ScannedPaths : \E v \in ScannedPaths : ImportEdge(u, v)}

\* the import graph has a directed cycle: some non-empty set of files in which every
\* file imports a file of the set
HasDirectedCycle ==
  \E S \in SUBSET Importers :
    S # {} /\ \A u \in S : \E v \in S : ImportEdge(u, v)

\* C27: circularDependencies is non-empty exactly if the import graph that
\* detectCircularDependencies built has a directed cycle, self-imports included.
C27_CycleExistence ==
  AfterCycles => ((circularDependencies # <<>>) <=> HasDirectedCycle)

\* a report of a cycle that no import of the first file leads to
C27_Witness ==
  /\ pc = "return"
  /\ circularDependencies # <<>>
  /\ Len(fileInfos) = 3
  /\ fileInfos[1].relativePath \notin Importers
  /\ fileInfos[3].relativePath \in Range(circularDependencies[1])

----------------------------------------------------------------------------
(* C28: caller identities *)

\* C28: every caller identity held by the reverse graph is a template:<file> identity
\* or a key of the forward graph.
C28_CallerIdentities ==
  \A key \in DOMAIN reverseCallGraph : \A caller \in reverseCallGraph[key] :
    IsTemplateIdentity(caller, project) \/ MapHas(callGraph, caller)

----------------------------------------------------------------------------
(* C29: repetitions in a call chain *)

\* the retained chains of all methods
RetainedChainsOfScan == UNION {SiteMethod(s).callChain : s \in MethodSites}

\* C29 as stated: the elements of every retained chain are pairwise distinct.
C29_ChainsRepeatNothing_AsStated ==
  \A chain \in RetainedChainsOfScan :
    \A i, j \in DOMAIN chain : i # j => chain[i] # chain[j]

\* C29: in every retained chain the elements after the first are pairwise distinct;
\* only the first element, the caller at which the expansion stopped, may occur again
\* further on.
C29_ChainsRepeatNothing ==
  \A chain \in RetainedChainsOfScan :
    \A i, j \in 2..Len(chain) : i # j => chain[i] # chain[j]

\* a report with a chain that starts at the method it ends with, through another method
\* and directly
C29_Witness ==
  /\ pc = "return"
  /\ \E chain \in RetainedChainsOfScan :
       Len(chain) >= 3 /\ chain[1] = chain[Len(chain)]
  /\ \E chain \in RetainedChainsOfScan : chain[1] = chain[2]

----------------------------------------------------------------------------
(* C30: free functions that are invoked *)

\* the body of a scanned class method holds the call text name
InvokedFromMethod(name) ==
  \E s \in MethodSites : \E k \in DOMAIN SiteMethod(s).calls :
    SiteMethod(s).calls[k] = <<name>>

\* the body of a scanned free function holds the call text name
InvokedFromFunction(name) ==
  \E s \in FunctionSites : \E k \in DOMAIN SiteFunction(s).calls :
    SiteFunction(s).calls[k] = <<name>>

\* C30: a free function that a scanned class method or a scanned free function invokes
\* by its bare name is not in deadCode, exported or not.
C30_InvokedFunctionsAlive ==
  AfterDeadCode =>
    \A s \in FunctionSites :
      (InvokedFromMethod(SiteFunction(s).name) \/ InvokedFromFunction(SiteFunction(s).name))
        => ~FunctionReported(s)

----------------------------------------------------------------------------
(* scan.ts: main() *)

\* the longest command line tried
MaxArgs == 3

CliTokens == {"--path", "-p", "/proj", "/nope", "--query", "--include"}

\* the paths for which fs.existsSync answers true
ExistingPaths == {"/proj"}

RECURSIVE SeqsUpTo(_, _)
\* the sequences over S of length at most n
SeqsUpTo(S, n) ==
  IF n = 0 THEN {<<>>}
  ELSE SeqsUpTo(S, n - 1) \cup
         {Append(t, x) : <<t, x>> \in {q \in SeqsUpTo(S, n - 1) : Len(q) = n - 1} \X S}

\* args[i], undefined past the end
ArgAt(i) == IF i <= Len(args) THEN args[i] ELSE Undef

\* lines 22-49: one iteration of the loop over args; a value option takes args[++i]
MainParseArg ==
  /\ mpc = "parse"
  /\ argi <= Len(args)
  /\ LET a == args[argi]
         v == ArgAt(argi + 1)
     IN IF a \in {"--path", "-p"}
          THEN config' = [config EXCEPT !.path = v] /\ argi' = argi + 2 /\ mpc' = mpc
        ELSE IF a \in {"--framework", "-f"}
          THEN config' = [config EXCEPT !.framework = v] /\ argi' = argi + 2 /\ mpc' = mpc
        ELSE IF a \in {"--depth", "-d"}
          THEN config' = [config EXCEPT !.depth = v] /\ argi' = argi + 2 /\ mpc' = mpc
        ELSE IF a \in {"--include", "-i", "--exclude", "-e"}
          THEN IF v = Undef
                 \* args[++i].split(',') throws; main() rejects and the catch logs it
                 THEN config' = config /\ argi' = argi + 1 /\ mpc' = "rejected"
                 ELSE /\ config' = IF a \in {"--include", "-i"}
                                     THEN [config EXCEPT !.include = v]
                                     ELSE [config EXCEPT !.exclude = v]
                      /\ argi' = argi + 2 /\ mpc' = mpc
        ELSE IF a \in {"--query", "-q"}
          THEN config' = [config EXCEPT !.query = v] /\ argi' = argi + 2 /\ mpc' = mpc
        ELSE config' = config /\ argi' = argi + 1 /\ mpc' = mpc
  /\ UNCHANGED <<project, framework, scannerVars, scanVars, outputs, args, exitCode, written>>

\* lines 51-65: if (!config.path) { usage; process.exit(1) }
MainCheckPath ==
  /\ mpc = "parse"
  /\ argi > Len(args)
  /\ IF Truthy(config.path)
       THEN mpc' = "checkExists" /\ exitCode' = exitCode
       ELSE mpc' = "exited" /\ exitCode' = 1
  /\ UNCHANGED <<project, framework, scannerVars, scanVars, outputs, args, argi, config,
                 written>>

\* MainCheckExists that goes on whatever fs.existsSync answers
MainCheckExists_NoExit ==
  /\ mpc = "checkExists"
  /\ mpc' = "construct"
  /\ UNCHANGED <<project, framework, scannerVars, scanVars, outputs, args, argi, config,
                 exitCode, written>>

\* lines 67-70: if (!fs.existsSync(config.path)) process.exit(1)
MainCheckExists ==
  /\ mpc = "checkExists"
  /\ IF config.path \in ExistingPaths
       THEN mpc' = "construct" /\ exitCode' = exitCode
       ELSE mpc' = "exited" /\ exitCode' = 1
  /\ UNCHANGED <<project, framework, scannerVars, scanVars, outputs, args, argi, config,
                 written>>

\* line 76: new ProjectScanner(config)
MainConstruct ==
  /\ mpc = "construct"
  /\ framework' = config.framework
  /\ mpc' = "scan"
  /\ UNCHANGED <<project, scannerVars, scanVars, outputs, args, argi, config, exitCode,
                 written>>

\* lines 79-85: the report is written once scan() has returned
MainWriteOutput ==
  /\ mpc = "scan"
  /\ pc = "idle"
  /\ Len(outputs) = 1
  /\ written' = written \cup
       {IF Truthy(config.query) THEN "output-query.json" ELSE "output.json"}
  /\ mpc' = "done"
  /\ UNCHANGED <<project, framework, scannerVars, scanVars, outputs, args, argi, config,
                 exitCode>>

MainNext ==
  \/ MainParseArg
  \/ MainCheckPath
  \/ MainCheckExists
  \/ MainConstruct
  \/ MainWriteOutput

\* what lies under /proj
CliProjects ==
  {InjectionFiles("prop", "store", <<CallDirect, CallNested>>, "boot"),
   PanelFiles(<<<<"save", "(", ")">>>>, "load", FALSE, TRUE, FALSE)}

\* the program started with a command line; no ProjectScanner exists yet
InitCli ==
  /\ project \in CliProjects
  /\ framework = Undef
  /\ FreshScanner
  /\ args \in SeqsUpTo(CliTokens, MaxArgs)
  /\ argi = 1
  /\ config = DefaultConfig
  /\ mpc = "parse"
  /\ exitCode = Undef
  /\ written = {}

NextCli == MainNext \/ ScanNext

SpecCli == InitCli /\ [][NextCli]_vars

----------------------------------------------------------------------------
(* C9 *)

\* no --path or -p on the command line is followed by a value
PathOptionAbsent ==
  \A i \in DOMAIN args : args[i] \in {"--path", "-p"} => i = Len(args)

\* the command line is read to its end and the root path is missing or does not exist
PathRejected ==
  /\ mpc \in {"checkExists", "construct", "scan", "done", "exited"}
  /\ ~Truthy(config.path) \/ config.path \notin ExistingPaths

\* C9: when the root path option is missing (also --path without a value) or names a
\* path that does not exist, the program ends with an error, no ProjectScanner is
\* constructed, no pass of scan() runs and no report file is written.
C9_ConfigurationErrorsFailFast ==
  (PathOptionAbsent \/ PathRejected) =>
    /\ framework = Undef
    /\ pc = "idle" /\ outputs = <<>> /\ fileInfos = <<>> /\ scannerVars = <<EmptyMap, EmptyMap, EmptyMap, EmptyMap, EmptyMap, EmptyMap>>
    /\ written = {}
    /\ \/ mpc = "exited" /\ exitCode = 1
       \/ mpc = "rejected"
       \/ mpc \in {"parse", "checkExists"} /\ ENABLED MainNext

\* --path given as the last argument, without a value: exit(1), nothing constructed
C9_Witness ==
  /\ args # <<>> /\ args[Len(args)] = "--path"
  /\ config.path = Undef
  /\ mpc = "exited" /\ exitCode = 1
  /\ framework = Undef /\ written = {}

\* a root path that does not exist: exit(1), nothing constructed
C9_WitnessNonexistent ==
  /\ config.path = "/nope"
  /\ mpc = "exited" /\ exitCode = 1
  /\ framework = Undef /\ written = {}

====
